---- MODULE Spec2Model ----
(***************************************************************************)
(* A model of the autovpa operator: the workload reconcilers               *)
(* (Deployment / StatefulSet / DaemonSet fronts over BaseReconciler), the  *)
(* VPA safety-net reconciler, the event filters that feed their work       *)
(* queues, and the cluster objects they read and write.                    *)
(*                                                                         *)
(* One namespace is modelled.  Every reconcile is one atomic step: it      *)
(* reads the cluster, performs all of its deletes and its apply, and the   *)
(* watch events of those writes are filtered and enqueued in the same      *)
(* step.  External writers (users) act through the User* actions.          *)
(*                                                                         *)
(* The work queues are sets (a queued key is queued once); a reconcile     *)
(* that returns an error puts its key back.  API calls succeed, except in  *)
(* SpecFaults, where reads may fail and a reconciler may read the VPAs     *)
(* from a cache that has not yet seen the last write.  The Kubernetes      *)
(* garbage collector is not part of the model: what is cleaned up is       *)
(* cleaned up by the operator.  A forced server-side apply replaces the    *)
(* labels, spec and owner references of the object by the applied ones.    *)
(***************************************************************************)
EXTENDS Integers, Sequences, FiniteSets, TLC

VARIABLES
    workloads,  \* [key -> workload object] for the workloads that exist
    vpas,       \* [name -> VPA object] for the VPAs that exist
    wq,         \* pending work items of the workload reconcilers (keys)
    vq,         \* pending work items of the safety-net reconciler (VPA names)
    nextUID,    \* source of fresh object UIDs
    ext,        \* number of external changes made so far
    last,       \* what the last step did (actor, key, result, API writes, and
                \* whether the step before it was a reconcile of the same key)
    origin,     \* history, kept by SpecOptInOut: [uid -> the first VPA the
                \* operator created for the workload, and what became of it
                \* at opt-out and opt-in]
    stale,      \* kept by SpecFaults: the VPAs and the queues before the last
                \* write to the VPAs, and the VPAs after it
    gauge       \* kept by SpecGauge: autovpa_managed_vpa, [profile -> value]

vars == <<workloads, vpas, wq, vq, nextUID, ext, last, origin, stale, gauge>>

----------------------------------------------------------------------------
(* Bounds of the model *)

MaxExternal == 3

----------------------------------------------------------------------------
(* Configuration: flags and the profile file *)

ProfileKey == "autovpa.containeroo.ch/profile"
ManagedLabel == "autovpa.containeroo.ch/managed"
UserLabel == "team"

Namespace == "ns1"

DeploymentKind == "Deployment"
StatefulSetKind == "StatefulSet"
DaemonSetKind == "DaemonSet"
SupportedKinds == {DeploymentKind, StatefulSetKind, DaemonSetKind}

AppsV1 == "apps/v1"

\* A name template is a sequence of parts: literal text or a variable.
Lit(s) == [lit |-> s, var |-> ""]
Var(v) == [lit |-> "", var |-> v]

DefaultNameTemplate == <<Var("WorkloadName"), Lit("-"), Var("Profile"), Lit("-vpa")>>

NoTemplate == <<>>

\* The profiles of the configuration.  "Gold" uses the default name template
\* like "default"; startup validation renders the templates with the sample
\* profile name "default" and does not look at the names of the profiles.
ProfileEntries ==
    [p \in {"default", "auto", "Gold"} |->
        IF p = "auto"
        THEN [NameTemplate |-> <<Var("WorkloadName"), Lit("-vpa")>>,
              Spec |-> [updateMode |-> "Auto"]]
        ELSE [NameTemplate |-> NoTemplate, Spec |-> [updateMode |-> "Off"]]]

DefaultProfile == "default"

----------------------------------------------------------------------------
(* Universe of the objects of the model *)

\* Annotation values users put on workloads: two configured profiles and
\* one that is not configured.
AnnValues == {"default", "auto", "ghost"}

WorkloadNames == {"demo"}
WKinds == {DeploymentKind, StatefulSetKind}
WKeys == {<<k, n>> : k \in WKinds, n \in WorkloadNames}

VPANames == {"demo-default-vpa", "demo-vpa"}

NoLabels == [k \in {} |-> ""]

OwnerRef(kind, name, uid, controller) ==
    [apiVersion |-> AppsV1, kind |-> kind, name |-> name, uid |-> uid,
     controller |-> controller, blockOwnerDeletion |-> controller]

----------------------------------------------------------------------------
(* Maps (labels, annotations) and generic helpers *)

\* Go map lookup: the zero value "" when the key is absent.
Get(m, k) == IF k \in DOMAIN m THEN m[k] ELSE ""

Without(m, k) == [x \in DOMAIN m \ {k} |-> m[x]]

\* DefaultIfZero: def when v is the zero value of its type, else v.
DefaultIfZero(v, def, zero) == IF v = zero THEN def ELSE v

MergeMaps(a, b) ==
    [k \in DOMAIN a \cup DOMAIN b |-> IF k \in DOMAIN b THEN b[k] ELSE a[k]]

\* metav1.GetControllerOf: the owner references with controller=true (the API
\* server admits at most one per object).
controllerOwnerRef(obj) == {r \in obj.owners : r.controller}

IsControlledBy(obj, owner) ==
    \E r \in controllerOwnerRef(obj) : r.uid = owner.uid

profileFromLabels(labels, key) ==
    IF key \in DOMAIN labels /\ labels[key] /= "" THEN labels[key] ELSE "unknown"

----------------------------------------------------------------------------
(* Name template rendering *)

NameTemplateData(workloadName, namespace, kind, profile) ==
    [WorkloadName |-> workloadName, Namespace |-> namespace,
     Kind |-> kind, Profile |-> profile]

RECURSIVE Execute(_, _)
Execute(tmpl, data) ==
    IF tmpl = <<>> THEN ""
    ELSE LET p == Head(tmpl)
             s == IF p.var = "" THEN p.lit ELSE data[p.var]
         IN s \o Execute(Tail(tmpl), data)

DNS1123SubdomainMaxLength == 253

\* Texts of the model that are made of lower-case alphanumerics, '-' and '.'.
DNSSafeTexts == {"demo", "default", "auto", "ghost", "ns1", "-", "-vpa",
                 "workload", "namespace"}

RECURSIVE PartsAreDNSSafe(_, _)
PartsAreDNSSafe(tmpl, data) ==
    \/ tmpl = <<>>
    \/ /\ LET p == Head(tmpl)
          IN (IF p.var = "" THEN p.lit ELSE data[p.var]) \in DNSSafeTexts
       /\ PartsAreDNSSafe(Tail(tmpl), data)

\* RenderNameTemplate: [ok, name]; ok is FALSE on an empty template or when
\* the rendered text is not a DNS-1123 subdomain.
RenderNameTemplate(tmpl, data) ==
    IF tmpl = <<>> THEN [ok |-> FALSE, name |-> ""]
    ELSE LET name == Execute(tmpl, data)
         IN IF /\ Len(name) > 0
               /\ Len(name) <= DNS1123SubdomainMaxLength
               /\ PartsAreDNSSafe(tmpl, data)
            THEN [ok |-> TRUE, name |-> name]
            ELSE [ok |-> FALSE, name |-> ""]

RenderVPAName(tmpl, data) == RenderNameTemplate(tmpl, data)

----------------------------------------------------------------------------
(* Cluster objects *)

\* A workload (Deployment, StatefulSet or DaemonSet).
Workload(kind, name, uid, annotations) ==
    [kind |-> kind, name |-> name, uid |-> uid, labels |-> NoLabels,
     annotations |-> annotations, deleting |-> FALSE]

\* A VerticalPodAutoscaler, as the unstructured document the operator uses.
newVPAObject(name, labels, spec, owners) ==
    [name |-> name, labels |-> labels, spec |-> spec, owners |-> owners,
     deleting |-> FALSE]

\* The group/version/kind a workload reconciler passes to ReconcileWorkload.
TargetGVK(kind) == [apiVersion |-> AppsV1, kind |-> kind]

----------------------------------------------------------------------------
(* Event filters (package predicates) *)

\* annotationValue: the value, and "present" only when it is non-empty.
annotationValue(obj, key) ==
    IF key \in DOMAIN obj.annotations /\ obj.annotations[key] /= ""
    THEN [value |-> obj.annotations[key], present |-> TRUE]
    ELSE [value |-> "", present |-> FALSE]

hasNonEmptyAnnotation(obj, key) == annotationValue(obj, key).present

hasTrueLabel(obj, key) == Get(obj.labels, key) = "true"

deletionJustStarted(oldObj, newObj) == ~oldObj.deleting /\ newObj.deleting

\* A filter that does not look at the controller owner reference.
controllerOwnerRefNeverChanged(oldObj, newObj) == FALSE

controllerOwnerRefChanged(oldObj, newObj) ==
    controllerOwnerRef(oldObj) /= controllerOwnerRef(newObj)

\* A filter that does not look at the spec.
specNeverChanged(oldObj, newObj) == FALSE

specChanged(oldObj, newObj) == oldObj.spec /= newObj.spec

\* A filter that does not look at the labels.
operatorLabelsNeverChanged(oldObj, newObj, keys) == FALSE

operatorLabelsChanged(oldObj, newObj, keys) ==
    \E k \in keys : Get(oldObj.labels, k) /= Get(newObj.labels, k)

\* ProfileAnnotationLifecycle: the filter on workload events.
ProfileAnnotationCreate(obj) == hasNonEmptyAnnotation(obj, ProfileKey)

\* A filter that passes opt-in and opt-out and misses a changed value.
ProfileAnnotationUpdateOptInOnly(oldObj, newObj) ==
    \/ annotationValue(oldObj, ProfileKey).present /= annotationValue(newObj, ProfileKey).present
    \/ deletionJustStarted(oldObj, newObj)

\* A filter that passes the start of a deletion also for a workload that is
\* not opted in.
ProfileAnnotationUpdateAnyDeletion(oldObj, newObj) ==
    LET o == annotationValue(oldObj, ProfileKey)
        n == annotationValue(newObj, ProfileKey)
    IN \/ o.present /= n.present
       \/ n.present /\ o.value /= n.value
       \/ deletionJustStarted(oldObj, newObj)

ProfileAnnotationUpdate(oldObj, newObj) ==
    LET o == annotationValue(oldObj, ProfileKey)
        n == annotationValue(newObj, ProfileKey)
    IN IF o.present /= n.present THEN TRUE
       ELSE IF ~n.present THEN FALSE
       ELSE IF o.value /= n.value THEN TRUE
       ELSE deletionJustStarted(oldObj, newObj)

ProfileAnnotationDelete(obj) == hasNonEmptyAnnotation(obj, ProfileKey)

\* ManagedVPAStructuralLifecycle: the filter of the safety-net reconciler.
StructuralCreate(obj) == hasTrueLabel(obj, ManagedLabel)

\* A filter that passes deletion starts and owner changes of unmanaged VPAs.
StructuralUpdateAlsoUnmanaged(oldObj, newObj) ==
    \/ hasTrueLabel(oldObj, ManagedLabel) /= hasTrueLabel(newObj, ManagedLabel)
    \/ deletionJustStarted(oldObj, newObj)
    \/ controllerOwnerRefChanged(oldObj, newObj)

StructuralUpdate(oldObj, newObj) ==
    LET oldHas == hasTrueLabel(oldObj, ManagedLabel)
        newHas == hasTrueLabel(newObj, ManagedLabel)
    IN IF oldHas /= newHas THEN TRUE
       ELSE IF ~newHas THEN FALSE
       ELSE IF deletionJustStarted(oldObj, newObj) THEN TRUE
       ELSE controllerOwnerRefChanged(oldObj, newObj)

StructuralDelete(obj) == hasTrueLabel(obj, ManagedLabel)

\* ManagedVPALifecycle: the filter of the workload reconcilers on owned VPAs.
ContentCreate(obj) == hasTrueLabel(obj, ManagedLabel)

\* A content filter that looks at owner, labels and spec of unmanaged VPAs too.
ContentUpdateAlsoUnmanaged(oldObj, newObj) ==
    \/ hasTrueLabel(oldObj, ManagedLabel) /= hasTrueLabel(newObj, ManagedLabel)
    \/ deletionJustStarted(oldObj, newObj)
    \/ controllerOwnerRefChanged(oldObj, newObj)
    \/ operatorLabelsChanged(oldObj, newObj, {ManagedLabel, ProfileKey})
    \/ specChanged(oldObj, newObj)

\* A content filter that passes what the structural filter passes, no more.
ContentUpdateStructuralOnly(oldObj, newObj) == StructuralUpdate(oldObj, newObj)

ContentUpdate(oldObj, newObj) ==
    LET oldHas == hasTrueLabel(oldObj, ManagedLabel)
        newHas == hasTrueLabel(newObj, ManagedLabel)
    IN IF oldHas /= newHas THEN TRUE
       ELSE IF ~newHas THEN FALSE
       ELSE IF deletionJustStarted(oldObj, newObj) THEN TRUE
       ELSE IF controllerOwnerRefChanged(oldObj, newObj) THEN TRUE
       ELSE IF operatorLabelsChanged(oldObj, newObj, {ManagedLabel, ProfileKey}) THEN TRUE
       ELSE specChanged(oldObj, newObj)

ContentDelete(obj) == hasTrueLabel(obj, ManagedLabel)

----------------------------------------------------------------------------
(* Watches: from a change of the cluster to work-queue items *)

\* Owns(vpa): the request for the controller owner of a VPA, for the
\* reconciler of the owner's kind.
OwnerRequests(obj) ==
    {<<r.kind, r.name>> : r \in {x \in controllerOwnerRef(obj) :
        x.kind \in SupportedKinds /\ x.apiVersion = AppsV1}}

\* Work items of the workload reconcilers caused by the change of the VPAs
\* from old to new.
VPAOwnerTriggers(old, new) ==
    UNION {
        IF n \notin DOMAIN old
        THEN (IF ContentCreate(new[n]) THEN OwnerRequests(new[n]) ELSE {})
        ELSE IF n \notin DOMAIN new
        THEN (IF ContentDelete(old[n]) THEN OwnerRequests(old[n]) ELSE {})
        ELSE IF old[n] /= new[n] /\ ContentUpdate(old[n], new[n])
        THEN OwnerRequests(old[n]) \cup OwnerRequests(new[n])
        ELSE {}
        : n \in DOMAIN old \cup DOMAIN new}

\* Work items of the safety-net reconciler caused by the same change.
VPATriggers(old, new) ==
    {n \in DOMAIN old \cup DOMAIN new :
        IF n \notin DOMAIN old THEN StructuralCreate(new[n])
        ELSE IF n \notin DOMAIN new THEN StructuralDelete(old[n])
        ELSE old[n] /= new[n] /\ StructuralUpdate(old[n], new[n])}

\* For(workload): work items caused by the change of the workloads.
WorkloadTriggers(old, new) ==
    {k \in DOMAIN old \cup DOMAIN new :
        IF k \notin DOMAIN old THEN ProfileAnnotationCreate(new[k])
        ELSE IF k \notin DOMAIN new THEN ProfileAnnotationDelete(old[k])
        ELSE old[k] /= new[k] /\ ProfileAnnotationUpdate(old[k], new[k])}

----------------------------------------------------------------------------
(* Shared utilities of the reconcilers *)

\* A list that forgets the label selector.
listAllVPAs(vp) == DOMAIN vp

\* List with the label selector managedLabel=true.
listManagedVPAs(vp) == {n \in DOMAIN vp : Get(vp[n].labels, ManagedLabel) = "true"}

\* The API server after deleting the VPAs named in names.
DeleteVPAs(vp, names) == [n \in DOMAIN vp \ names |-> vp[n]]

\* Server-side apply (field manager "autovpa", force): the object is created
\* when absent; otherwise its labels, spec and ownerReferences take the
\* applied values and the rest of the object is kept.
applyVPA(vp, obj) ==
    IF obj.name \in DOMAIN vp
    THEN [vp EXCEPT ![obj.name] =
            [@ EXCEPT !.labels = obj.labels, !.spec = obj.spec, !.owners = obj.owners]]
    ELSE [n \in DOMAIN vp \cup {obj.name} |-> IF n = obj.name THEN obj ELSE vp[n]]

\* A comparison that always finds a difference.
vpaAlwaysNeedsUpdate(a, b) == TRUE

vpaNeedsUpdate(a, b) ==
    \/ a.spec /= b.spec
    \/ a.labels /= b.labels
    \/ a.owners /= b.owners

buildVPASpec(profileSpec, targetGVK, workloadName) ==
    [targetRef |-> [apiVersion |-> targetGVK.apiVersion,
                    kind |-> targetGVK.kind,
                    name |-> workloadName],
     updatePolicy |-> [updateMode |-> profileSpec.updateMode]]

\* ctrl.SetControllerReference on a fresh object: the single owner reference.
ControllerReference(owner) == {OwnerRef(owner.kind, owner.name, owner.uid, TRUE)}

\* What a write found before it acted, recorded with the write.
PreState(vp, n) ==
    IF n \notin DOMAIN vp THEN "absent"
    ELSE IF hasTrueLabel(vp[n], ManagedLabel) THEN "managed" ELSE "unmanaged"

\* The kinds of the controller owner references a write found.
PreOwnerKinds(vp, n) ==
    IF n \notin DOMAIN vp THEN {} ELSE {r.kind : r \in controllerOwnerRef(vp[n])}

Write(op, vp, n) ==
    [op |-> op, name |-> n, pre |-> PreState(vp, n),
     owners |-> PreOwnerKinds(vp, n), diff |-> {}]

\* What vpaNeedsUpdate found different, recorded with the apply.
Diff(a, b) ==
    (IF a.spec /= b.spec THEN {"spec"} ELSE {})
    \cup (IF a.labels /= b.labels THEN {"labels"} ELSE {})
    \cup (IF a.owners /= b.owners THEN {"owners"} ELSE {})

----------------------------------------------------------------------------
(* BaseReconciler *)

\* A builder that also copies the labels of the workload.
buildDesiredVPAWithWorkloadLabels(obj, targetGVK, selectedProfile, profile) ==
    LET templateStr == DefaultIfZero(profile.NameTemplate, DefaultNameTemplate, NoTemplate)
        rendered == RenderVPAName(templateStr,
                        NameTemplateData(obj.name, Namespace, targetGVK.kind, selectedProfile))
    IN [ok |-> rendered.ok,
        Name |-> rendered.name,
        Profile |-> selectedProfile,
        Labels |-> MergeMaps(obj.labels,
                       [k \in {ManagedLabel, ProfileKey} |->
                           IF k = ManagedLabel THEN "true" ELSE selectedProfile]),
        Spec |-> buildVPASpec(profile.Spec, targetGVK, obj.name)]

buildDesiredVPA(obj, targetGVK, selectedProfile, profile) ==
    LET templateStr == DefaultIfZero(profile.NameTemplate, DefaultNameTemplate, NoTemplate)
        rendered == RenderVPAName(templateStr,
                        NameTemplateData(obj.name, Namespace, targetGVK.kind, selectedProfile))
    IN [ok |-> rendered.ok,
        Name |-> rendered.name,
        Profile |-> selectedProfile,
        Labels |-> [k \in {ManagedLabel, ProfileKey} |->
                        IF k = ManagedLabel THEN "true" ELSE selectedProfile],
        Spec |-> buildVPASpec(profile.Spec, targetGVK, obj.name)]

\* A merge that keeps the labels of the existing object as they are.
mergeVPAKeepsLabels(existing, desired, owner) ==
    newVPAObject(existing.name, existing.labels, desired.Spec,
                 ControllerReference(owner))

\* A merge that applies the desired labels alone.
mergeVPADesiredLabelsOnly(existing, desired, owner) ==
    newVPAObject(existing.name, desired.Labels, desired.Spec,
                 ControllerReference(owner))

\* A merge that keeps the owner references of the existing object.
mergeVPAKeepsOwners(existing, desired, owner) ==
    newVPAObject(existing.name, MergeMaps(existing.labels, desired.Labels),
                 desired.Spec, existing.owners)

mergeVPA(existing, desired, owner) ==
    newVPAObject(existing.name,
                 MergeMaps(existing.labels, desired.Labels),
                 desired.Spec,
                 ControllerReference(owner))

\* A reconcile that never prunes.
KeepObsoleteManagedVPAs(vp, owner, keepName) == {}

\* A pruning that does not spare the VPA with the desired name.
ObsoleteAndDesiredManagedVPAs(vp, owner, keepName) ==
    {n \in listManagedVPAs(vp) : IsControlledBy(vp[n], owner)}

\* The managed VPAs DeleteObsoleteManagedVPAs deletes.
ObsoleteManagedVPAs(vp, owner, keepName) ==
    {n \in listManagedVPAs(vp) : n /= keepName /\ IsControlledBy(vp[n], owner)}

\* The VPAs with an owner reference to the workload, managed or not.
OwnedVPAsOf(vp, ownerName, workloadKind) ==
    {n \in DOMAIN vp :
        \E ref \in vp[n].owners : ref.kind = workloadKind /\ ref.name = ownerName}

\* The managed VPAs deleteManagedVPAs deletes (opt-out, workload gone).
ManagedVPAsOf(vp, ownerName, workloadKind) ==
    {n \in listManagedVPAs(vp) :
        \E ref \in vp[n].owners : ref.kind = workloadKind /\ ref.name = ownerName}

\* A cleanup that lists and deletes nothing.
deleteNoManagedVPAs(vp, ownerName, workloadKind) ==
    [vpas |-> vp, result |-> "ok", writes |-> {}]

deleteManagedVPAs(vp, ownerName, workloadKind) ==
    LET gone == ManagedVPAsOf(vp, ownerName, workloadKind)
    IN [vpas |-> DeleteVPAs(vp, gone),
        result |-> "ok",
        writes |-> {Write("delete", vp, n) : n \in gone}]

DeleteManagedVPAsForOptOut(vp, owner, workloadKind) ==
    deleteManagedVPAs(vp, owner.name, workloadKind)

\* A reconciler that does nothing for a key it does not find.
forgetGoneWorkload(vp, ownerName, workloadKind) ==
    [vpas |-> vp, result |-> "ok", writes |-> {}]

DeleteManagedVPAsForGoneWorkload(vp, ownerName, workloadKind) ==
    deleteManagedVPAs(vp, ownerName, workloadKind)

\* A missing profile reported as an error, so that the item is retried.
retryMissingProfile(vp, obj, workloadKind) ==
    [vpas |-> vp, result |-> "err", writes |-> {}]

\* A missing profile handled like an opt-out.
cleanupMissingProfile(vp, obj, workloadKind) ==
    deleteManagedVPAs(vp, obj.name, workloadKind)

\* The profile is not configured: event and metric, nothing written, nil.
skipMissingProfile(vp, obj, workloadKind) ==
    [vpas |-> vp, result |-> "ok", writes |-> {}]

\* ReconcileWorkload: [vpas, result, writes] - the VPAs after the reconcile,
\* "ok" (nil error) or "err" (error returned, the item is retried), and the
\* API writes issued.
ReconcileWorkload(vp, obj, targetGVK) ==
    LET profileName == Get(obj.annotations, ProfileKey)
        hasProfile == ProfileKey \in DOMAIN obj.annotations
        selectedProfile == DefaultIfZero(profileName, DefaultProfile, "")
    IN IF ~hasProfile \/ profileName = ""
       THEN DeleteManagedVPAsForOptOut(vp, obj, targetGVK.kind)
       ELSE IF selectedProfile \notin DOMAIN ProfileEntries
       THEN skipMissingProfile(vp, obj, targetGVK.kind)
       ELSE
         LET desired == buildDesiredVPA(obj, targetGVK, selectedProfile,
                                        ProfileEntries[selectedProfile])
         IN IF ~desired.ok
            THEN [vpas |-> vp, result |-> "err", writes |-> {}]
            ELSE
              LET obsolete == ObsoleteManagedVPAs(vp, obj, desired.Name)
                  pruned == DeleteVPAs(vp, obsolete)
                  deletes == {Write("delete", vp, n) : n \in obsolete}
              IN IF desired.Name \notin DOMAIN pruned
                 THEN \* createVPA
                      [vpas |-> applyVPA(pruned,
                                   newVPAObject(desired.Name, desired.Labels,
                                                desired.Spec, ControllerReference(obj))),
                       result |-> "ok",
                       writes |-> deletes \cup {Write("apply", pruned, desired.Name)}]
                 ELSE
                   LET existing == pruned[desired.Name]
                       updated == mergeVPA(existing, desired, obj)
                   IN IF ~vpaNeedsUpdate(existing, updated)
                      THEN [vpas |-> pruned, result |-> "ok", writes |-> deletes]
                      ELSE [vpas |-> applyVPA(pruned, updated),
                            result |-> "ok",
                            writes |-> deletes \cup
                                {[Write("apply", pruned, desired.Name)
                                    EXCEPT !.diff = Diff(existing, updated)]}]

\* Reconcile of a Deployment / StatefulSet / DaemonSet reconciler for a key.
WorkloadReconcilerReconcile(vp, wl, key) ==
    IF key \notin DOMAIN wl
    THEN DeleteManagedVPAsForGoneWorkload(vp, key[2], key[1])
    ELSE ReconcileWorkload(vp, wl[key], TargetGVK(key[1]))

----------------------------------------------------------------------------
(* VPAReconciler (the safety net) *)

\* A safety net that takes every VPA for a managed one.
skipNothing(vpa) == FALSE

skipUnmanaged(vpa) == Get(vpa.labels, ManagedLabel) /= "true"

\* An owner lookup that takes any owner reference of a supported kind,
\* controller or not.
resolveAnyOwnerGVK(vpa) ==
    LET refs == {r \in vpa.owners : r.kind \in SupportedKinds}
    IN IF refs = {} THEN [found |-> FALSE, kind |-> "", ownerName |-> ""]
       ELSE LET r == CHOOSE x \in refs : TRUE
            IN [found |-> TRUE, kind |-> r.kind, ownerName |-> r.name]

\* resolveOwnerGVK: the controller owner reference of a supported kind.
resolveOwnerGVK(vpa) ==
    LET refs == {r \in vpa.owners : r.controller /\ r.kind \in SupportedKinds}
    IN IF refs = {} THEN [found |-> FALSE, kind |-> "", ownerName |-> ""]
       ELSE LET r == CHOOSE x \in refs : TRUE
            IN [found |-> TRUE, kind |-> r.kind, ownerName |-> r.name]

\* An owner fetch that always finds the owner.
fetchOwnerAlwaysFound(wl, kind, name) == TRUE

\* fetchOwner: whether the owner object exists.
fetchOwner(wl, kind, name) == <<kind, name>> \in DOMAIN wl

\* A safety net that checks and logs, and deletes nothing.
VPAReconcilerKeepsOrphans(vp, wl, name) ==
    [vpas |-> vp, result |-> "ok", writes |-> {}]

VPAReconcilerReconcile(vp, wl, name) ==
    IF name \notin DOMAIN vp
    THEN [vpas |-> vp, result |-> "ok", writes |-> {}]
    ELSE IF skipUnmanaged(vp[name])
    THEN [vpas |-> vp, result |-> "ok", writes |-> {}]
    ELSE LET o == resolveOwnerGVK(vp[name])
         IN IF ~o.found \/ ~fetchOwner(wl, o.kind, o.ownerName)
            THEN [vpas |-> DeleteVPAs(vp, {name}),
                  result |-> "ok",
                  writes |-> {Write("delete", vp, name)}]
            ELSE [vpas |-> vp, result |-> "ok", writes |-> {}]

----------------------------------------------------------------------------
(* Failing API calls and reads from a cache that lags *)

\* A delete that meets an object already gone fails the reconcile.
notFoundIsError(vp, names) ==
    IF names \subseteq DOMAIN vp THEN "ok" ELSE "err"

\* The outcome of the deletes of names: NotFound is taken as success (the
\* loops of the workload reconcilers continue, deleteManagedVPA returns nil).
deleteOutcome(vp, names) == "ok"

\* The reconcile decided on r from what its cache showed; its deletes and its
\* apply are issued to the API server, which holds vp.
IssueWrites(vp, r) ==
    LET dels == {w.name : w \in {x \in r.writes : x.op = "delete"}}
        apps == {w.name : w \in {x \in r.writes : x.op = "apply"}}
        afterDeletes == DeleteVPAs(vp, dels)
        outcome == IF r.result = "err" THEN "err" ELSE deleteOutcome(vp, dels)
    IN [vpas |-> IF apps = {} \/ outcome = "err" THEN afterDeletes
                 ELSE applyVPA(afterDeletes, r.vpas[CHOOSE n \in apps : TRUE]),
        result |-> outcome,
        writes |-> {[Write(w.op, vp, w.name) EXCEPT !.diff = w.diff] :
                       w \in {x \in r.writes : x.op = "delete" \/ outcome = "ok"}}]

\* A failed fetch of the workload taken for NotFound.
getFailureTakenAsNotFound(vp, key) ==
    DeleteManagedVPAsForGoneWorkload(vp, key[2], key[1])

\* Get of the workload failed with another error than NotFound.
getFailed(vp, key) == [vpas |-> vp, result |-> "err", writes |-> {}]

\* A failed list during pruning passed over: the reconcile goes on.
pruneListFailureSkipped(vp, obj, targetGVK) == ReconcileWorkload(vp, obj, targetGVK)

\* listManagedVPAs failed in DeleteObsoleteManagedVPAs: the error is returned
\* before the desired VPA is fetched, created or updated.
pruneListFailed(vp, obj, targetGVK) == [vpas |-> vp, result |-> "err", writes |-> {}]

\* listManagedVPAs failed in deleteManagedVPAs (opt-out, workload gone).
cleanupListFailed(vp) == [vpas |-> vp, result |-> "err", writes |-> {}]

\* fetchOwner failed with another error than NotFound.
ownerFetchFailed(vp) == [vpas |-> vp, result |-> "err", writes |-> {}]

\* The reconcile of key lists the managed VPAs.
CallsList(wl, key) ==
    IF key \notin DOMAIN wl THEN TRUE
    ELSE IF ~hasNonEmptyAnnotation(wl[key], ProfileKey) THEN TRUE
    ELSE LET profile == wl[key].annotations[ProfileKey]
         IN IF profile \notin DOMAIN ProfileEntries THEN FALSE
            ELSE buildDesiredVPA(wl[key], TargetGVK(key[1]), profile,
                                 ProfileEntries[profile]).ok

\* The reconcile of the VPA fetches its owner.
CallsFetchOwner(view, name) ==
    /\ name \in DOMAIN view
    /\ ~skipUnmanaged(view[name])
    /\ resolveOwnerGVK(view[name]).found

\* A workload reconcile that reads the VPAs from view, writes to the API
\* server holding vp, and meets the failure f ("none", "get", "list").
WorkloadReconcileUnderFault(view, vp, wl, key, f) ==
    IF f = "get" THEN getFailed(vp, key)
    ELSE IF f = "list"
    THEN (IF key \in DOMAIN wl /\ hasNonEmptyAnnotation(wl[key], ProfileKey)
          THEN pruneListFailed(vp, wl[key], TargetGVK(key[1]))
          ELSE cleanupListFailed(vp))
    ELSE IssueWrites(vp, WorkloadReconcilerReconcile(view, wl, key))

\* A safety-net reconcile that reads the VPA from view, writes to the API
\* server holding vp, and meets the failure f ("none", "owner").
VPAReconcileUnderFault(view, vp, wl, name, f) ==
    IF f = "owner" THEN ownerFetchFailed(vp)
    ELSE IssueWrites(vp, VPAReconcilerReconcile(view, wl, name))

----------------------------------------------------------------------------
(* The gauge autovpa_managed_vpa *)

\* The values of the label "profile" of the gauge.
GaugeProfiles == DOMAIN ProfileEntries \cup AnnValues \cup {"bogus", "unknown"}

\* The VPAs a reconcile that decided on r deletes.
DeletesOf(r) == {w.name : w \in {x \in r.writes : x.op = "delete"}}

\* The gauge after a workload reconcile that decided on r from view and wrote
\* to the API server holding vp: Dec for every delete that succeeded (not for
\* NotFound), with the profile label of the deleted VPA; Inc for a created
\* VPA, with the selected profile.
WorkloadGauge(g, view, vp, r) ==
    LET CreatesOf(d) ==
            {w.name : w \in {x \in d.writes : x.op = "apply" /\ x.pre = "absent"}}
    IN
    [p \in DOMAIN g |->
        g[p]
        - Cardinality({d \in DeletesOf(r) \cap DOMAIN vp :
                          profileFromLabels(view[d].labels, ProfileKey) = p})
        + Cardinality({n \in CreatesOf(r) : r.vpas[n].labels[ProfileKey] = p})]

\* The gauge after a safety-net reconcile: Dec after deleteManagedVPA has
\* returned nil, which it does for NotFound too.
VPAGauge(g, view, vp, r) ==
    [p \in DOMAIN g |->
        g[p] - Cardinality({d \in DeletesOf(r) :
                               profileFromLabels(view[d].labels, ProfileKey) = p})]

----------------------------------------------------------------------------
(* What external writers may do *)

AnnotationChoices ==
    {NoLabels} \cup {[k \in {ProfileKey} |-> v] : v \in AnnValues}

\* The spec of a VPA written by hand, and the spec after a manual edit.
UserSpec ==
    [targetRef |-> [apiVersion |-> AppsV1, kind |-> DeploymentKind, name |-> "demo"],
     updatePolicy |-> [updateMode |-> "Initial"]]

UserLabelChoices ==
    {[k \in {UserLabel} |-> "x"], [k \in {ManagedLabel} |-> "true"]}

ForeignUID == 0

\* Owner references a user may put on a VPA: none, a controller reference to
\* an existing workload, to a workload that does not exist, or to an object
\* of an unsupported kind, and a non-controller reference to a workload.
UserOwnerChoices(wl) ==
    {{}}
    \cup {{OwnerRef(k[1], k[2], wl[k].uid, TRUE)} : k \in DOMAIN wl}
    \cup {{OwnerRef(DeploymentKind, "missing-dep", ForeignUID, TRUE)}}
    \cup {{OwnerRef("ReplicaSet", "demo-rs", ForeignUID, TRUE)}}
    \cup {{OwnerRef(k[1], k[2], wl[k].uid, FALSE)} : k \in DOMAIN wl}

\* Annotations of a workload that names the profile "default" or "Gold".
RenderAnnotationChoices ==
    {[k \in {ProfileKey} |-> v] : v \in {"default", "Gold"}}

\* Labels users put on workloads: none, or app=<name>.
WorkloadLabelChoices(name) == {NoLabels, [k \in {"app"} |-> name]}

----------------------------------------------------------------------------
(* State machine *)

\* The cache of the reconcilers holds what the API server holds.
NoCache == [vpas |-> [n \in {} |-> 0], now |-> [n \in {} |-> 0],
            wq |-> {}, vq |-> {}]

NoStep == [actor |-> "none", wkey |-> <<"", "">>, vname |-> "",
           result |-> "ok", writes |-> {}, repeat |-> FALSE, fault |-> "none"]

UserStep == [NoStep EXCEPT !.actor = "user"]

Init ==
    /\ workloads = [k \in {} |-> 0]
    /\ vpas = [n \in {} |-> 0]
    /\ wq = {}
    /\ vq = {}
    /\ nextUID = 1
    /\ ext = 0
    /\ last = NoStep
    /\ origin = [u \in {} |-> 0]
    /\ stale = NoCache
    /\ gauge = [p \in GaugeProfiles |-> 0]

\* An external change of the workloads: its watch event passes the filter of
\* the workload reconcilers or is dropped.
UserWritesWorkloads(new) ==
    /\ ext < MaxExternal
    /\ ext' = ext + 1
    /\ workloads' = new
    /\ wq' = wq \cup WorkloadTriggers(workloads, new)
    /\ last' = UserStep
    /\ UNCHANGED <<vpas, vq, origin, stale, gauge>>

\* An external change of the VPAs: its watch events pass the two VPA filters
\* or are dropped.
UserWritesVPAs(new) ==
    /\ ext < MaxExternal
    /\ ext' = ext + 1
    /\ vpas' = new
    /\ wq' = wq \cup VPAOwnerTriggers(vpas, new)
    /\ vq' = vq \cup VPATriggers(vpas, new)
    /\ last' = UserStep
    /\ UNCHANGED <<workloads, nextUID, origin, stale, gauge>>

UserCreateWorkload ==
    \E k \in WKeys \ DOMAIN workloads, a \in AnnotationChoices :
        /\ UserWritesWorkloads(
              [x \in DOMAIN workloads \cup {k} |->
                  IF x = k THEN Workload(k[1], k[2], nextUID, a) ELSE workloads[x]])
        /\ nextUID' = nextUID + 1

UserCreateLabelledWorkload ==
    \E k \in WKeys \ DOMAIN workloads, a \in RenderAnnotationChoices :
      \E l \in WorkloadLabelChoices(k[2]) :
        /\ UserWritesWorkloads(
              [x \in DOMAIN workloads \cup {k} |->
                  IF x = k
                  THEN [Workload(k[1], k[2], nextUID, a) EXCEPT !.labels = l]
                  ELSE workloads[x]])
        /\ nextUID' = nextUID + 1

UserSetAnnotation ==
    \E k \in DOMAIN workloads, a \in AnnotationChoices :
        /\ a /= workloads[k].annotations
        /\ UserWritesWorkloads([workloads EXCEPT ![k].annotations = a])
        /\ UNCHANGED nextUID

\* The profile annotation is set to the empty string.
UserSetEmptyAnnotation ==
    \E k \in DOMAIN workloads :
        /\ Get(workloads[k].annotations, ProfileKey) /= ""
        /\ UserWritesWorkloads(
              [workloads EXCEPT ![k].annotations = [a \in {ProfileKey} |-> ""]])
        /\ UNCHANGED nextUID

\* A change of the workload that leaves the annotations alone.
UserRelabelWorkload ==
    \E k \in DOMAIN workloads :
      \E l \in WorkloadLabelChoices(k[2]) :
        /\ l /= workloads[k].labels
        /\ UserWritesWorkloads([workloads EXCEPT ![k].labels = l])
        /\ UNCHANGED nextUID

UserStartWorkloadDeletion ==
    \E k \in DOMAIN workloads :
        /\ ~workloads[k].deleting
        /\ UserWritesWorkloads([workloads EXCEPT ![k].deleting = TRUE])
        /\ UNCHANGED nextUID

UserDeleteWorkload ==
    \E k \in DOMAIN workloads :
        /\ UserWritesWorkloads([x \in DOMAIN workloads \ {k} |-> workloads[x]])
        /\ UNCHANGED nextUID

UserCreateVPA ==
    \E n \in VPANames \ DOMAIN vpas, l \in UserLabelChoices,
       o \in UserOwnerChoices(workloads) :
        UserWritesVPAs(
            [x \in DOMAIN vpas \cup {n} |->
                IF x = n THEN newVPAObject(n, l, UserSpec, o) ELSE vpas[x]])

UserRemoveManagedLabel ==
    \E n \in DOMAIN vpas :
        /\ ManagedLabel \in DOMAIN vpas[n].labels
        /\ UserWritesVPAs([vpas EXCEPT ![n].labels = Without(@, ManagedLabel)])

UserAddManagedLabel ==
    \E n \in DOMAIN vpas :
        /\ ManagedLabel \notin DOMAIN vpas[n].labels
        /\ UserWritesVPAs([vpas EXCEPT ![n].labels =
                              MergeMaps(@, [k \in {ManagedLabel} |-> "true"])])

UserSetManagedLabelFalse ==
    \E n \in DOMAIN vpas :
        /\ Get(vpas[n].labels, ManagedLabel) /= "false"
        /\ UserWritesVPAs([vpas EXCEPT ![n].labels =
                              MergeMaps(@, [k \in {ManagedLabel} |-> "false"])])

\* A label of the user is added to the VPA or removed from it.
UserSetUserLabel ==
    \E n \in DOMAIN vpas :
        UserWritesVPAs([vpas EXCEPT ![n].labels =
                           IF UserLabel \in DOMAIN @ THEN Without(@, UserLabel)
                           ELSE MergeMaps(@, [k \in {UserLabel} |-> "x"])])

\* The deletion of a VPA starts (deletionTimestamp set, finalizers pending).
UserStartVPADeletion ==
    \E n \in DOMAIN vpas :
        /\ ~vpas[n].deleting
        /\ UserWritesVPAs([vpas EXCEPT ![n].deleting = TRUE])

UserSetProfileLabel ==
    \E n \in DOMAIN vpas, v \in {"", "bogus"} :
        /\ Get(vpas[n].labels, ProfileKey) /= v
        /\ UserWritesVPAs([vpas EXCEPT ![n].labels =
                              IF v = "" THEN Without(@, ProfileKey)
                              ELSE MergeMaps(@, [k \in {ProfileKey} |-> v])])

UserEditSpec ==
    \E n \in DOMAIN vpas :
        /\ vpas[n].spec.updatePolicy.updateMode /= "Initial"
        /\ UserWritesVPAs([vpas EXCEPT ![n].spec.updatePolicy.updateMode = "Initial"])

UserSetOwners ==
    \E n \in DOMAIN vpas, o \in UserOwnerChoices(workloads) :
        /\ o /= vpas[n].owners
        /\ UserWritesVPAs([vpas EXCEPT ![n].owners = o])

UserDeleteVPA ==
    \E n \in DOMAIN vpas :
        UserWritesVPAs([x \in DOMAIN vpas \ {n} |-> vpas[x]])

\* What the operator wrote into a VPA: labels, spec and owner references.
Content(vpa) == [labels |-> vpa.labels, spec |-> vpa.spec, owners |-> vpa.owners]

\* The history of the VPAs the operator creates: the first VPA created for a
\* workload ("created"), its deletion by a reconcile of the opted-out
\* workload ("deleted"), and the VPA created next for the workload with the
\* annotation it had at first ("recreated").
Track(orig, wl, key, r) ==
    IF key \notin DOMAIN wl THEN orig
    ELSE
      LET w == wl[key]
          u == w.uid
          made == {x \in r.writes : x.op = "apply" /\ x.pre = "absent"}
          gone == {x \in r.writes : x.op = "delete"}
      IN IF made /= {}
         THEN LET c == Content(r.vpas[(CHOOSE x \in made : TRUE).name])
              IN IF u \notin DOMAIN orig
                 THEN [x \in DOMAIN orig \cup {u} |->
                          IF x = u
                          THEN [profile |-> w.annotations[ProfileKey],
                                first |-> c, again |-> c, phase |-> "created"]
                          ELSE orig[x]]
                 ELSE IF /\ orig[u].phase = "deleted"
                         /\ orig[u].profile = w.annotations[ProfileKey]
                 THEN [orig EXCEPT ![u].again = c, ![u].phase = "recreated"]
                 ELSE orig
         ELSE IF /\ u \in DOMAIN orig
                 /\ orig[u].phase = "created"
                 /\ ~hasNonEmptyAnnotation(w, ProfileKey)
                 /\ gone /= {}
         THEN [orig EXCEPT ![u].phase = "deleted"]
         ELSE orig

\* A workload reconciler that also marks the reconciled workload.
WorkloadReconcileMarksWorkload(key, r) ==
    /\ vpas' = r.vpas
    /\ wq' = ((wq \ {key}) \cup VPAOwnerTriggers(vpas, r.vpas))
                 \cup (IF r.result = "err" THEN {key} ELSE {})
    /\ vq' = vq \cup VPATriggers(vpas, r.vpas)
    /\ last' = [actor |-> "workload", wkey |-> key, vname |-> "",
                result |-> r.result, writes |-> r.writes,
                repeat |-> (last.actor = "workload" /\ last.wkey = key),
                fault |-> "none"]
    /\ workloads' = IF key \in DOMAIN workloads
                    THEN [workloads EXCEPT ![key].annotations =
                             MergeMaps(@, [k \in {ManagedLabel} |-> "true"])]
                    ELSE workloads
    /\ UNCHANGED <<nextUID, ext, stale, gauge>>

\* A workload reconciler takes a work item and reconciles it.  The item is
\* retried when the reconcile returns an error.
WorkloadReconcileOf(key, r) ==
    /\ vpas' = r.vpas
    /\ wq' = ((wq \ {key}) \cup VPAOwnerTriggers(vpas, r.vpas))
                 \cup (IF r.result = "err" THEN {key} ELSE {})
    /\ vq' = vq \cup VPATriggers(vpas, r.vpas)
    /\ last' = [actor |-> "workload", wkey |-> key, vname |-> "",
                result |-> r.result, writes |-> r.writes,
                repeat |-> (last.actor = "workload" /\ last.wkey = key),
                fault |-> "none"]
    /\ UNCHANGED <<workloads, nextUID, ext, stale, gauge>>

WorkloadReconcile ==
    \E key \in wq :
        /\ WorkloadReconcileOf(key, WorkloadReconcilerReconcile(vpas, workloads, key))
        /\ UNCHANGED origin

\* The same step, with the history of the created VPAs kept.
WorkloadReconcileTracked ==
    \E key \in wq :
        LET r == WorkloadReconcilerReconcile(vpas, workloads, key)
        IN /\ WorkloadReconcileOf(key, r)
           /\ origin' = Track(origin, workloads, key, r)

\* The safety-net reconciler takes a work item and reconciles it.
VPAReconcile ==
    \E name \in vq :
        LET r == VPAReconcilerReconcile(vpas, workloads, name)
        IN /\ vpas' = r.vpas
           /\ wq' = wq \cup VPAOwnerTriggers(vpas, r.vpas)
           /\ vq' = ((vq \ {name}) \cup VPATriggers(vpas, r.vpas))
                        \cup (IF r.result = "err" THEN {name} ELSE {})
           /\ last' = [actor |-> "safetynet", wkey |-> <<"", "">>, vname |-> name,
                       result |-> r.result, writes |-> r.writes,
                       repeat |-> (last.actor = "safetynet" /\ last.vname = name),
                       fault |-> "none"]
           /\ UNCHANGED <<workloads, nextUID, ext, origin, stale, gauge>>

Next ==
    \/ UserCreateWorkload
    \/ UserSetAnnotation
    \/ UserStartWorkloadDeletion
    \/ UserDeleteWorkload
    \/ UserCreateVPA
    \/ UserRemoveManagedLabel
    \/ UserAddManagedLabel
    \/ UserSetProfileLabel
    \/ UserEditSpec
    \/ UserSetOwners
    \/ UserDeleteVPA
    \/ WorkloadReconcile
    \/ VPAReconcile

Spec == Init /\ [][Next]_vars

\* The operator under changes of the workloads and tampering with the VPAs
\* it made, with the history of the created VPAs.
NextOptInOut ==
    \/ UserCreateWorkload
    \/ UserSetAnnotation
    \/ UserStartWorkloadDeletion
    \/ UserDeleteWorkload
    \/ UserRemoveManagedLabel
    \/ UserSetProfileLabel
    \/ UserEditSpec
    \/ UserDeleteVPA
    \/ WorkloadReconcileTracked
    \/ VPAReconcile

SpecOptInOut == Init /\ [][NextOptInOut]_vars

\* The operator with labelled workloads, a profile whose name does not
\* render to a valid VPA name, and VPAs whose managed label is not "true".
NextLabelsAndRender ==
    \/ UserCreateLabelledWorkload
    \/ UserSetAnnotation
    \/ UserDeleteWorkload
    \/ UserCreateVPA
    \/ UserRemoveManagedLabel
    \/ UserSetManagedLabelFalse
    \/ WorkloadReconcile
    \/ VPAReconcile

SpecLabelsAndRender == Init /\ [][NextLabelsAndRender]_vars

\* What the cache of a reconciler may show: the VPAs of the API server, or
\* the VPAs before the last write while the event of that write is under way.
Views(queuedBefore) ==
    {vpas} \cup (IF stale.now = vpas /\ queuedBefore THEN {stale.vpas} ELSE {})

\* The VPAs before a write to the VPAs, the VPAs after it, and the work items
\* that were queued before it and still are; the cache has caught up once
\* none of them is left.
Lagging(old, new, wqBefore, vqBefore, wqAfter, vqAfter) ==
    LET c == IF new = old THEN stale
             ELSE [vpas |-> old, now |-> new, wq |-> wqBefore, vq |-> vqBefore]
        w == c.wq \cap wqAfter
        v == c.vq \cap vqAfter
    IN IF w = {} /\ v = {} THEN NoCache
       ELSE [vpas |-> c.vpas, now |-> c.now, wq |-> w, vq |-> v]

WorkloadFaults == {"none", "get", "list"}

VPAFaults == {"none", "owner"}

\* A user deletes a VPA while reconciles of it are under way.
UserDeleteVPARacing ==
    \E n \in DOMAIN vpas :
        LET new == [x \in DOMAIN vpas \ {n} |-> vpas[x]]
        IN /\ ext < MaxExternal
           /\ ext' = ext + 1
           /\ vpas' = new
           /\ wq' = wq \cup VPAOwnerTriggers(vpas, new)
           /\ vq' = vq \cup VPATriggers(vpas, new)
           /\ last' = UserStep
           /\ stale' = Lagging(vpas, new, wq, vq, wq', vq')
           /\ UNCHANGED <<workloads, nextUID, origin, gauge>>

\* A workload reconciler takes the work item key, reads the VPAs from view
\* and meets the failure f.
WorkloadReconcileSeeing(key, view, f) ==
    LET r == WorkloadReconcileUnderFault(view, vpas, workloads, key, f)
    IN /\ f = "list" => CallsList(workloads, key)
       /\ vpas' = r.vpas
       /\ wq' = ((wq \ {key}) \cup VPAOwnerTriggers(vpas, r.vpas))
                    \cup (IF r.result = "err" THEN {key} ELSE {})
       /\ vq' = vq \cup VPATriggers(vpas, r.vpas)
       /\ last' = [actor |-> "workload", wkey |-> key, vname |-> "",
                   result |-> r.result, writes |-> r.writes,
                   repeat |-> FALSE, fault |-> f]
       /\ stale' = Lagging(vpas, r.vpas, wq \ {key}, vq, wq', vq')
       /\ UNCHANGED <<workloads, nextUID, ext, origin>>

\* The safety net takes the work item name under the same conditions.
VPAReconcileSeeing(name, view, f) ==
    LET r == VPAReconcileUnderFault(view, vpas, workloads, name, f)
    IN /\ f = "owner" => CallsFetchOwner(view, name)
       /\ vpas' = r.vpas
       /\ wq' = wq \cup VPAOwnerTriggers(vpas, r.vpas)
       /\ vq' = ((vq \ {name}) \cup VPATriggers(vpas, r.vpas))
                    \cup (IF r.result = "err" THEN {name} ELSE {})
       /\ last' = [actor |-> "safetynet", wkey |-> <<"", "">>, vname |-> name,
                   result |-> r.result, writes |-> r.writes,
                   repeat |-> FALSE, fault |-> f]
       /\ stale' = Lagging(vpas, r.vpas, wq, vq \ {name}, wq', vq')
       /\ UNCHANGED <<workloads, nextUID, ext, origin>>

\* The reads of a reconcile may fail.
WorkloadReconcileUnderFaults ==
    \E key \in wq, f \in WorkloadFaults :
        WorkloadReconcileSeeing(key, vpas, f) /\ UNCHANGED gauge

VPAReconcileUnderFaults ==
    \E name \in vq, f \in VPAFaults :
        VPAReconcileSeeing(name, vpas, f) /\ UNCHANGED gauge

\* The cache of a reconcile may lag for an item queued before the last write.
WorkloadReconcileLagging ==
    \E key \in wq :
        \E view \in Views(key \in stale.wq) :
            WorkloadReconcileSeeing(key, view, "none") /\ UNCHANGED gauge

VPAReconcileLagging ==
    \E name \in vq :
        \E view \in Views(name \in stale.vq) :
            VPAReconcileSeeing(name, view, "none") /\ UNCHANGED gauge

\* The same reconciles with the gauge autovpa_managed_vpa kept.
WorkloadReconcileCounting ==
    \E key \in wq :
        \E view \in Views(key \in stale.wq) :
            /\ WorkloadReconcileSeeing(key, view, "none")
            /\ gauge' = WorkloadGauge(gauge, view, vpas,
                                      WorkloadReconcilerReconcile(view, workloads, key))

VPAReconcileCounting ==
    \E name \in vq :
        \E view \in Views(name \in stale.vq) :
            /\ VPAReconcileSeeing(name, view, "none")
            /\ gauge' = VPAGauge(gauge, view, vpas,
                                 VPAReconcilerReconcile(view, workloads, name))

\* The operator with lagging caches, the gauge kept.
NextGauge ==
    \/ UserCreateWorkload
    \/ UserSetAnnotation
    \/ UserDeleteWorkload
    \/ WorkloadReconcileCounting
    \/ VPAReconcileCounting

SpecGauge == Init /\ [][NextGauge]_vars

\* The operator with failing reads.
NextFaults ==
    \/ UserCreateWorkload
    \/ UserSetAnnotation
    \/ UserDeleteWorkload
    \/ WorkloadReconcileUnderFaults
    \/ VPAReconcileUnderFaults

SpecFaults == Init /\ [][NextFaults]_vars

\* The operator with lagging caches and a user who deletes VPAs.
NextRaces ==
    \/ UserCreateWorkload
    \/ UserSetAnnotation
    \/ UserDeleteWorkload
    \/ UserDeleteVPARacing
    \/ WorkloadReconcileLagging
    \/ VPAReconcileLagging

SpecRaces == Init /\ [][NextRaces]_vars

\* A user adds a non-controller owner reference to a VPA: to a workload of a
\* supported kind, with the UID of that workload or with another UID.
UserAddOwnerReference ==
    \E n \in DOMAIN vpas, k \in WKeys :
        \E u \in {ForeignUID} \cup (IF k \in DOMAIN workloads THEN {workloads[k].uid} ELSE {}) :
            /\ OwnerRef(k[1], k[2], u, FALSE) \notin vpas[n].owners
            /\ UserWritesVPAs([vpas EXCEPT ![n].owners =
                                  @ \cup {OwnerRef(k[1], k[2], u, FALSE)}])

\* The Deployment demo is opted into the profile default, and the operator
\* has created its VPA and is at rest.
InitOwned ==
    LET w == Workload(DeploymentKind, "demo", 1, [k \in {ProfileKey} |-> "default"])
        r == ReconcileWorkload([n \in {} |-> 0], w, TargetGVK(DeploymentKind))
    IN /\ workloads = [k \in {<<DeploymentKind, "demo">>} |-> w]
       /\ vpas = r.vpas
       /\ wq = {}
       /\ vq = {}
       /\ nextUID = 2
       /\ ext = 0
       /\ last = NoStep
       /\ origin = [u \in {} |-> 0]
       /\ stale = NoCache
       /\ gauge = [p \in GaugeProfiles |-> IF p = "default" THEN 1 ELSE 0]

\* The operator with VPAs that carry further owner references.
NextSharedOwners ==
    \/ UserCreateWorkload
    \/ UserSetAnnotation
    \/ UserDeleteWorkload
    \/ UserAddOwnerReference
    \/ WorkloadReconcile
    \/ VPAReconcile

SpecSharedOwners == InitOwned /\ [][NextSharedOwners]_vars

\* The reconcile of one work item of a workload reconciler, and of the
\* safety net.
WorkloadReconcileKey(key) ==
    /\ key \in wq
    /\ \E r \in {WorkloadReconcilerReconcile(vpas, workloads, key)} :
          WorkloadReconcileOf(key, r)
    /\ UNCHANGED origin

VPAReconcileName(name) ==
    /\ name \in vq
    /\ \E r \in {VPAReconcilerReconcile(vpas, workloads, name)} :
          /\ vpas' = r.vpas
          /\ wq' = wq \cup VPAOwnerTriggers(vpas, r.vpas)
          /\ vq' = ((vq \ {name}) \cup VPATriggers(vpas, r.vpas))
                       \cup (IF r.result = "err" THEN {name} ELSE {})
          /\ last' = [actor |-> "safetynet", wkey |-> <<"", "">>, vname |-> name,
                      result |-> r.result, writes |-> r.writes,
                      repeat |-> (last.actor = "safetynet" /\ last.vname = name),
                      fault |-> "none"]
    /\ UNCHANGED <<workloads, nextUID, ext, origin, stale, gauge>>

\* Every queued item is reconciled at some time.
QueuesWorkedOff ==
    /\ \A key \in WKeys : WF_vars(WorkloadReconcileKey(key))
    /\ \A name \in VPANames : WF_vars(VPAReconcileName(name))

\* The operator with workloads that users create, after which the reconcilers
\* work off their queues.
NextQuiesce ==
    \/ UserCreateWorkload
    \/ WorkloadReconcile
    \/ VPAReconcile

SpecQuiesce == Init /\ [][NextQuiesce]_vars /\ QueuesWorkedOff

\* The operator with workloads that are deleted and created again, after
\* which the reconcilers work off their queues.
NextRecreate ==
    \/ UserDeleteWorkload
    \/ UserCreateWorkload
    \/ WorkloadReconcile
    \/ VPAReconcile

SpecRecreate == InitOwned /\ [][NextRecreate]_vars /\ QueuesWorkedOff

\* The operator under every kind of update of a workload.
NextWorkloadEvents ==
    \/ UserCreateWorkload
    \/ UserSetAnnotation
    \/ UserSetEmptyAnnotation
    \/ UserRelabelWorkload
    \/ UserStartWorkloadDeletion
    \/ WorkloadReconcile
    \/ VPAReconcile

SpecWorkloadEvents == Init /\ [][NextWorkloadEvents]_vars

\* The operator under every kind of update of a VPA.
NextVPAEvents ==
    \/ UserCreateWorkload
    \/ UserCreateVPA
    \/ UserRemoveManagedLabel
    \/ UserAddManagedLabel
    \/ UserSetManagedLabelFalse
    \/ UserSetUserLabel
    \/ UserSetProfileLabel
    \/ UserEditSpec
    \/ UserSetOwners
    \/ UserStartVPADeletion
    \/ UserDeleteVPA
    \/ WorkloadReconcile
    \/ VPAReconcile

SpecVPAEvents == Init /\ [][NextVPAEvents]_vars

Converged == wq = {} /\ vq = {}

----------------------------------------------------------------------------
(* Vocabulary of the properties *)

Operator(step) == step.actor \in {"workload", "safetynet"}

\* The workload is opted in with a configured profile.
WantsVPA(w) ==
    /\ hasNonEmptyAnnotation(w, ProfileKey)
    /\ w.annotations[ProfileKey] \in DOMAIN ProfileEntries

OptedOut(w) == ~hasNonEmptyAnnotation(w, ProfileKey)

\* The desired state of the VPA of an opted-in workload.
DesiredOf(w) ==
    buildDesiredVPA(w, TargetGVK(w.kind), w.annotations[ProfileKey],
                    ProfileEntries[w.annotations[ProfileKey]])

\* The controller owner reference of the VPA points at the workload.
ControllerMatches(vpa, w) ==
    \E r \in controllerOwnerRef(vpa) :
        r.kind = w.kind /\ r.name = w.name /\ r.uid = w.uid

ManagedVPAsControlledBy(w) ==
    {n \in listManagedVPAs(vpas) : ControllerMatches(vpas[n], w)}

----------------------------------------------------------------------------
(* Properties *)

\* C1: once converged (no pending work item), every workload opted in with a
\* configured profile has exactly one managed VPA whose controller owner
\* reference matches it, and that VPA carries the rendered desired name.
C1_ExactlyOneManagedVPA ==
    Converged =>
        \A k \in DOMAIN workloads :
            WantsVPA(workloads[k]) =>
                ManagedVPAsControlledBy(workloads[k]) = {DesiredOf(workloads[k]).Name}

\* A converged state after a workload reconcile, with an opted-in workload
\* that went through an external change after its creation.
C1_Witness ==
    /\ Converged
    /\ ext >= 2
    /\ last.actor = "workload"
    /\ \E k \in DOMAIN workloads :
          /\ WantsVPA(workloads[k])
          /\ DesiredOf(workloads[k]).Name = "demo-vpa"
          /\ ManagedVPAsControlledBy(workloads[k]) = {"demo-vpa"}

\* The VPA named n was created, changed or deleted by the step.
Touched(n) ==
    \/ n \in DOMAIN vpas /\ n \notin DOMAIN vpas'
    \/ n \notin DOMAIN vpas /\ n \in DOMAIN vpas'
    \/ n \in DOMAIN vpas /\ n \in DOMAIN vpas' /\ vpas[n] /= vpas'[n]

\* C2 (as claimed): no step of the operator creates a VPA without the managed
\* label, or updates or deletes a VPA that does not carry it.
C2_NeverTouchesUnmanaged ==
    [][Operator(last') =>
        \A n \in DOMAIN vpas \cup DOMAIN vpas' :
            Touched(n) =>
                /\ n \in DOMAIN vpas => hasTrueLabel(vpas[n], ManagedLabel)
                /\ n \in DOMAIN vpas' => hasTrueLabel(vpas'[n], ManagedLabel)]_vars

\* C2 (amended): the operator never deletes a VPA without the managed label
\* and never creates one without it; the only write to an unmanaged VPA is
\* the apply of a workload reconcile to the VPA that carries the desired name
\* of the reconciled workload (opted in with a configured profile), and that
\* apply makes it a managed VPA controlled by the workload.
C2_UnmanagedOnlyAdoptedByName ==
    [][Operator(last') =>
        \A n \in DOMAIN vpas \cup DOMAIN vpas' :
            Touched(n) =>
                /\ n \in DOMAIN vpas' => hasTrueLabel(vpas'[n], ManagedLabel)
                /\ (n \in DOMAIN vpas /\ ~hasTrueLabel(vpas[n], ManagedLabel)) =>
                      /\ n \in DOMAIN vpas'
                      /\ last'.actor = "workload"
                      /\ last'.wkey \in DOMAIN workloads
                      /\ WantsVPA(workloads[last'.wkey])
                      /\ n = DesiredOf(workloads[last'.wkey]).Name
                      /\ ControllerMatches(vpas'[n], workloads[last'.wkey])]_vars

\* A workload reconcile has just applied over a VPA that did not carry the
\* managed label.
C2_Witness ==
    /\ last.actor = "workload"
    /\ \E w \in last.writes : w.op = "apply" /\ w.pre = "unmanaged"

\* C3: a workload reconcile that finds its desired name taken by a managed VPA
\* controlled by a different workload leaves that VPA unchanged and returns
\* success.
C3_CollisionIsNoOp ==
    [][
      \* The reconcile of this step is for an existing workload, opted in with a
      \* configured profile, whose desired name is taken by a managed VPA that is
      \* controlled by another workload and is in the state that workload desires.
      LET Collision(key, n) ==
              /\ key \in DOMAIN workloads
              /\ WantsVPA(workloads[key])
              /\ n = DesiredOf(workloads[key]).Name
              /\ n \in DOMAIN vpas
              /\ hasTrueLabel(vpas[n], ManagedLabel)
              /\ \E other \in DOMAIN workloads \ {key} :
                    /\ ControllerMatches(vpas[n], workloads[other])
                    /\ WantsVPA(workloads[other])
                    /\ DesiredOf(workloads[other]).Name = n
                    /\ DesiredOf(workloads[other]).Spec = vpas[n].spec
      IN
      \A n \in DOMAIN vpas :
          (last'.actor = "workload" /\ Collision(last'.wkey, n)) =>
              /\ n \in DOMAIN vpas'
              /\ vpas'[n] = vpas[n]
              /\ last'.result = "ok"]_vars

\* C4: once converged, no managed VPA is left whose owning workload opted out,
\* switched to a profile that renders another name, or was deleted.
C4_CleanupAfterConvergence ==
    \* The managed VPA is left over from a workload that opted out, switched to
    \* a profile with another name, or was deleted.
    LET LeftOver(n) ==
            \E r \in controllerOwnerRef(vpas[n]) :
                LET key == <<r.kind, r.name>>
                IN \/ key \notin DOMAIN workloads
                   \/ /\ key \in DOMAIN workloads
                      /\ \/ workloads[key].uid /= r.uid
                         \/ OptedOut(workloads[key])
                         \/ WantsVPA(workloads[key]) /\ n /= DesiredOf(workloads[key]).Name
    IN
    Converged => \A n \in listManagedVPAs(vpas) : ~LeftOver(n)

OwnershipOK(vpa) ==
    \* The VPA has exactly one controller owner reference, of a supported kind.
    LET SupportedControllerRefs(v) ==
            {r \in v.owners : r.controller /\ r.kind \in SupportedKinds}
    IN
    /\ Cardinality(SupportedControllerRefs(vpa)) = 1
    /\ Cardinality(controllerOwnerRef(vpa)) = 1

\* C5: every managed VPA for which the safety net has no pending work item
\* has exactly one controller owner reference, of a supported kind; and a
\* safety-net reconcile of a managed VPA without such a reference deletes it.
C5_OwnershipOrDeleted ==
    [][/\ \A n \in listManagedVPAs(vpas') : n \notin vq' => OwnershipOK(vpas'[n])
       /\ \A n \in listManagedVPAs(vpas) :
             (last'.actor = "safetynet" /\ last'.vname = n /\ ~OwnershipOK(vpas[n]))
                 => n \notin DOMAIN vpas']_vars

\* The safety net has just deleted a managed VPA that had no controller owner
\* reference of a supported kind.
C5_Witness ==
    /\ last.actor = "safetynet"
    /\ \E w \in last.writes :
          /\ w.op = "delete"
          /\ w.pre = "managed"
          /\ w.owners \cap SupportedKinds = {}

\* C6 (as claimed): in every reachable state every managed VPA has a
\* non-empty profile label.
C6_LabelIntegrity ==
    \A n \in listManagedVPAs(vpas) : Get(vpas[n].labels, ProfileKey) /= ""

\* C6 (amended): every VPA the operator creates or applies carries the managed
\* label "true" and the profile label with the selected profile of the
\* reconciled workload.
C6_OperatorWritesBothLabels ==
    [][Operator(last') =>
        \A n \in DOMAIN vpas' :
            Touched(n) =>
                /\ hasTrueLabel(vpas'[n], ManagedLabel)
                /\ Get(vpas'[n].labels, ProfileKey) /= ""
                /\ last'.wkey \in DOMAIN workloads
                /\ Get(vpas'[n].labels, ProfileKey)
                      = annotationValue(workloads[last'.wkey], ProfileKey).value]_vars

\* A workload reconcile has just applied over a managed VPA whose labels
\* differed from the desired ones.
C6_Witness ==
    /\ last.actor = "workload"
    /\ \E w \in last.writes :
          w.op = "apply" /\ w.pre = "managed" /\ "labels" \in w.diff
    /\ C6_LabelIntegrity

\* The spec of the selected profile with the targetRef set to the workload.
DesiredSpecOf(w) ==
    [targetRef |-> [apiVersion |-> AppsV1, kind |-> w.kind, name |-> w.name],
     updatePolicy |-> [updateMode |->
        ProfileEntries[w.annotations[ProfileKey]].Spec.updateMode]]

\* The VPA named n is the VPA of the opted-in workload at key: it carries the
\* desired name and its controller owner reference matches the workload.
VPAOf(key, n) ==
    /\ key \in DOMAIN workloads
    /\ WantsVPA(workloads[key])
    /\ n \in DOMAIN vpas
    /\ n = DesiredOf(workloads[key]).Name
    /\ ControllerMatches(vpas[n], workloads[key])

\* C7: when an external writer changes the spec of the managed VPA of an
\* opted-in workload away from the desired spec, a reconcile of the workload
\* is queued; the reconcile of a workload whose managed VPA has another spec
\* than the desired one restores it; and once converged every managed VPA
\* controlled by a workload opted in with a configured profile has the
\* desired spec.
C7_SpecRestored ==
    [][/\ \A key \in DOMAIN workloads, n \in listManagedVPAs(vpas) :
             VPAOf(key, n) =>
                 /\ ( /\ last'.actor = "user"
                      /\ n \in DOMAIN vpas'
                      /\ vpas'[n].spec /= vpas[n].spec
                      /\ vpas'[n].spec /= DesiredSpecOf(workloads[key]) )
                        => key \in wq'
                 /\ ( /\ last'.actor = "workload"
                      /\ last'.wkey = key
                      /\ vpas[n].spec /= DesiredSpecOf(workloads[key]) )
                        => /\ n \in DOMAIN vpas'
                           /\ vpas'[n].spec = DesiredSpecOf(workloads[key])
       /\ Converged' =>
             \A key \in DOMAIN workloads' :
                 WantsVPA(workloads'[key]) =>
                     \A n \in ManagedVPAsControlledBy(workloads[key])' :
                         vpas'[n].spec = DesiredSpecOf(workloads'[key])]_vars

\* A workload reconcile has just restored the spec of a managed VPA that its
\* workload controls, and nothing else.
C7_Witness ==
    /\ last.actor = "workload"
    /\ \E w \in last.writes :
          /\ w.op = "apply"
          /\ w.pre = "managed"
          /\ w.diff = {"spec"}
          /\ w.owners = {last.wkey[1]}
    /\ last.wkey \in DOMAIN workloads
    /\ ManagedVPAsControlledBy(workloads[last.wkey]) /= {}

\* The operator labels of the VPA are those the workload asks for.
LabelsRestored(vpa, w) ==
    /\ Get(vpa.labels, ManagedLabel) = "true"
    /\ Get(vpa.labels, ProfileKey) = w.annotations[ProfileKey]

\* C8: when an external writer removes the managed label from, or changes the
\* profile label on, the managed VPA of an opted-in workload, a reconcile of
\* the workload is queued; the reconcile of a workload whose VPA lacks the
\* managed label or carries another profile label puts both labels back; and
\* once converged the VPA of every opted-in workload carries both.
C8_LabelsSnapBack ==
    [][/\ \A key \in DOMAIN workloads, n \in DOMAIN vpas :
             VPAOf(key, n) =>
                 /\ ( /\ last'.actor = "user"
                      /\ LabelsRestored(vpas[n], workloads[key])
                      /\ n \in DOMAIN vpas'
                      /\ ~LabelsRestored(vpas'[n], workloads[key]) )
                        => key \in wq'
                 /\ ( /\ last'.actor = "workload"
                      /\ last'.wkey = key
                      /\ ~LabelsRestored(vpas[n], workloads[key]) )
                        => /\ n \in DOMAIN vpas'
                           /\ LabelsRestored(vpas'[n], workloads[key])
       /\ \A key \in DOMAIN workloads', n \in DOMAIN vpas' :
             (Converged /\ VPAOf(key, n))' =>
                 LabelsRestored(vpas'[n], workloads'[key])]_vars

\* A workload reconcile has just put the managed label back on the VPA of
\* its workload, which nothing else was wrong with.
C8_Witness ==
    /\ last.actor = "workload"
    /\ \E w \in last.writes :
          /\ w.op = "apply"
          /\ w.pre = "unmanaged"
          /\ w.diff = {"labels"}
          /\ w.owners = {last.wkey[1]}

\* The VPA name the workload renders under the profile.
RenderedFor(w, profile) ==
    buildDesiredVPA(w, TargetGVK(w.kind), profile, ProfileEntries[profile]).Name

C10_OptOutThenOptIn ==
    [][/\ \A key \in DOMAIN workloads :
             /\ ( /\ last'.actor = "user"
                  /\ key \in DOMAIN workloads'
                  /\ OptedOut(workloads[key]) /= OptedOut(workloads'[key]) )
                    => key \in wq'
             /\ ( /\ last'.actor = "workload"
                  /\ last'.wkey = key
                  /\ OptedOut(workloads[key]) )
                    => ManagedVPAsControlledBy(workloads[key])' = {}
             /\ ( /\ last'.actor = "workload"
                  /\ last'.wkey = key
                  /\ WantsVPA(workloads[key])
                  /\ ManagedVPAsControlledBy(workloads[key]) = {} )
                    => ManagedVPAsControlledBy(workloads[key])'
                          = {DesiredOf(workloads[key]).Name}
       /\ \A u \in DOMAIN origin' :
             origin'[u].phase = "recreated" => origin'[u].again = origin'[u].first]_vars

\* A workload reconcile has just created the VPA of a workload again, after
\* the first one was deleted at the opt-out of the workload.
C10_Witness ==
    /\ last.actor = "workload"
    /\ \E w \in last.writes : w.op = "apply" /\ w.pre = "absent"
    /\ last.wkey \in DOMAIN workloads
    /\ workloads[last.wkey].uid \in DOMAIN origin
    /\ origin[workloads[last.wkey].uid].phase = "recreated"
    /\ ManagedVPAsControlledBy(workloads[last.wkey]) /= {}

\* The workload at key exists and its annotation names a profile that is not
\* configured.
MissingProfile(key) ==
    /\ key \in DOMAIN workloads
    /\ hasNonEmptyAnnotation(workloads[key], ProfileKey)
    /\ workloads[key].annotations[ProfileKey] \notin DOMAIN ProfileEntries

\* C11: the reconcile of an opted-out workload, and every reconcile of the
\* safety net, leaves every VPA that does not carry the managed label as it
\* is - also one with a name the workload renders and an owner reference to
\* the workload.
C11_UnmanagedPreservedAtOptOut ==
    [][( \/ /\ last'.actor = "workload"
            /\ last'.wkey \in DOMAIN workloads
            /\ OptedOut(workloads[last'.wkey])
         \/ last'.actor = "safetynet" )
         => \A n \in DOMAIN vpas :
               ~hasTrueLabel(vpas[n], ManagedLabel) =>
                   n \in DOMAIN vpas' /\ vpas'[n] = vpas[n]]_vars

\* The reconcile of an opted-out workload has just run while a VPA without
\* the managed label carries a name the workload renders and a controller
\* owner reference to it.
C11_Witness ==
    /\ last.actor = "workload"
    /\ last.wkey \in DOMAIN workloads
    /\ OptedOut(workloads[last.wkey])
    /\ \E n \in DOMAIN vpas :
          /\ ~hasTrueLabel(vpas[n], ManagedLabel)
          /\ ControllerMatches(vpas[n], workloads[last.wkey])
          /\ \E p \in {"default", "auto"} : n = RenderedFor(workloads[last.wkey], p)

C13_MissingProfileNoRetry ==
    [][\A key \in DOMAIN workloads :
          (last'.actor = "workload" /\ last'.wkey = key /\ MissingProfile(key)) =>
              /\ last'.result = "ok"
              /\ DOMAIN vpas' \subseteq DOMAIN vpas
              /\ \A w \in last'.writes : w.op /= "apply"
              /\ key \notin wq']_vars

\* A workload with the annotation "ghost" has just been reconciled and no
\* reconcile of it is pending.
C13_Witness ==
    /\ last.actor = "workload"
    /\ MissingProfile(last.wkey)
    /\ last.wkey \notin wq
    /\ last.result = "ok"

\* C14: the reconcile of a workload whose annotation names a profile that is
\* not configured deletes no VPA: the managed VPAs made for the workload
\* before stay as they are.
C14_MissingProfileNoCleanup ==
    [][\A key \in DOMAIN workloads :
          (last'.actor = "workload" /\ last'.wkey = key /\ MissingProfile(key)) =>
              /\ \A n \in DOMAIN vpas : n \in DOMAIN vpas' /\ vpas'[n] = vpas[n]
              /\ \A w \in last'.writes : w.op /= "delete"]_vars

\* A workload that switched to the annotation "ghost" has just been
\* reconciled and still controls the managed VPA made for it before.
C14_Witness ==
    /\ last.actor = "workload"
    /\ MissingProfile(last.wkey)
    /\ ManagedVPAsControlledBy(workloads[last.wkey]) /= {}

\* C17: no reconcile of a workload reconciler or of the safety net creates,
\* changes or deletes a workload.
C17_WorkloadsNeverMutated ==
    [][Operator(last') => workloads' = workloads]_vars

\* An opted-in workload has just been reconciled with a write to its VPA, and
\* the workload is there as its user left it.
C17_Witness ==
    /\ last.actor = "workload"
    /\ last.wkey \in DOMAIN workloads
    /\ WantsVPA(workloads[last.wkey])
    /\ \E w \in last.writes : w.op = "apply"
    /\ DOMAIN workloads[last.wkey].annotations = {ProfileKey}

\* The managed VPA with the desired name of the workload at key exists and
\* has no controller owner reference.
Adoptable(key) ==
    /\ key \in DOMAIN workloads
    /\ WantsVPA(workloads[key])
    /\ DesiredOf(workloads[key]).ok
    /\ DesiredOf(workloads[key]).Name \in DOMAIN vpas
    /\ hasTrueLabel(vpas[DesiredOf(workloads[key]).Name], ManagedLabel)
    /\ controllerOwnerRef(vpas[DesiredOf(workloads[key]).Name]) = {}

\* C19: the reconcile of a workload that finds a managed VPA with its desired
\* name and without a controller owner reference applies the VPA, and after
\* the apply the VPA has a controller owner reference to the workload.
C19_AdoptsManagedVPAWithoutController ==
    [][\A key \in DOMAIN workloads :
          (last'.actor = "workload" /\ last'.wkey = key /\ Adoptable(key)) =>
              /\ DesiredOf(workloads[key]).Name \in DOMAIN vpas'
              /\ ControllerMatches(vpas'[DesiredOf(workloads[key]).Name],
                                   workloads[key])
              /\ \E w \in last'.writes :
                    /\ w.op = "apply"
                    /\ w.name = DesiredOf(workloads[key]).Name
                    /\ "owners" \in w.diff]_vars

\* A workload reconcile has just applied a managed VPA that had no controller
\* owner reference, and the VPA is now controlled by the workload.
C19_Witness ==
    /\ last.actor = "workload"
    /\ last.wkey \in DOMAIN workloads
    /\ \E w \in last.writes :
          /\ w.op = "apply"
          /\ w.pre = "managed"
          /\ w.owners = {}
          /\ "owners" \in w.diff
          /\ w.name \in DOMAIN vpas
          /\ ControllerMatches(vpas[w.name], workloads[last.wkey])

\* The managed VPAs with a controller owner reference of the kind and the
\* name of key.
ManagedVPAsOfKey(key) ==
    {n \in DOMAIN vpas :
        /\ hasTrueLabel(vpas[n], ManagedLabel)
        /\ \E r \in controllerOwnerRef(vpas[n]) : r.kind = key[1] /\ r.name = key[2]}

\* C20: the reconcile of a key whose workload is not found deletes every
\* managed VPA whose controller owner reference has the kind of the
\* reconciler and the name of the key, and returns success.
C20_GoneWorkloadCleanup ==
    [][(last'.actor = "workload" /\ last'.wkey \notin DOMAIN workloads) =>
          /\ last'.result = "ok"
          /\ \A n \in ManagedVPAsOfKey(last'.wkey) :
                /\ n \notin DOMAIN vpas'
                /\ \E w \in last'.writes : w.op = "delete" /\ w.name = n]_vars

\* The reconcile of a key without a workload has just deleted a managed VPA
\* controlled by a workload of that kind.
C20_Witness ==
    /\ last.actor = "workload"
    /\ last.wkey \notin DOMAIN workloads
    /\ last.result = "ok"
    /\ \E w \in last.writes :
          w.op = "delete" /\ w.pre = "managed" /\ last.wkey[1] \in w.owners

\* C15: when rendering the VPA name fails, the reconcile returns success and
\* the work item is not queued again.
C15_RenderFailureNoRetry ==
    [][
      \* Rendering the VPA name of the workload at key fails.
      LET RenderFails(key) ==
              /\ key \in DOMAIN workloads
              /\ WantsVPA(workloads[key])
              /\ ~DesiredOf(workloads[key]).ok
      IN
      \A key \in DOMAIN workloads :
          (last'.actor = "workload" /\ last'.wkey = key /\ RenderFails(key)) =>
              /\ last'.result = "ok"
              /\ key \notin wq']_vars

\* C16: a reconcile of the safety net creates and updates nothing; its only
\* write is the delete of the VPA it reconciles, and only when that VPA has
\* the managed label with the value "true".  Every other VPA, and the
\* reconciled one when its managed label is absent or has another value,
\* stays as it is.
C16_SafetyNetOnlyDeletesManaged ==
    [][last'.actor = "safetynet" =>
          /\ \A w \in last'.writes :
                /\ w.op = "delete"
                /\ w.name = last'.vname
                /\ w.name \in DOMAIN vpas
                /\ Get(vpas[w.name].labels, ManagedLabel) = "true"
          /\ DOMAIN vpas' \subseteq DOMAIN vpas
          /\ \A n \in DOMAIN vpas' : vpas'[n] = vpas[n]
          /\ DOMAIN vpas \ DOMAIN vpas' = {w.name : w \in last'.writes}
          /\ \A n \in DOMAIN vpas :
                Get(vpas[n].labels, ManagedLabel) /= "true" => n \in DOMAIN vpas']_vars

\* The safety net has just reconciled a VPA whose managed label is "false"
\* and that has no controller owner of a supported kind, and left it alone.
C16_Witness ==
    /\ last.actor = "safetynet"
    /\ last.vname \in DOMAIN vpas
    /\ Get(vpas[last.vname].labels, ManagedLabel) = "false"
    /\ ~resolveOwnerGVK(vpas[last.vname]).found
    /\ last.writes = {}

\* C18: the labels of a VPA the operator applies for a workload include all
\* labels of the workload, besides the managed label and the profile label.
C18_VPACarriesWorkloadLabels ==
    [][\A key \in DOMAIN workloads :
          (last'.actor = "workload" /\ last'.wkey = key) =>
              \A w \in last'.writes :
                  w.op = "apply" =>
                      /\ w.name \in DOMAIN vpas'
                      /\ hasTrueLabel(vpas'[w.name], ManagedLabel)
                      /\ Get(vpas'[w.name].labels, ProfileKey)
                            = workloads[key].annotations[ProfileKey]
                      /\ \A l \in DOMAIN workloads[key].labels :
                            Get(vpas'[w.name].labels, l) = workloads[key].labels[l]]_vars

\* C21: a successful reconcile of a workload opted into a configured profile
\* deletes every managed VPA whose controller owner reference matches the
\* workload and whose name is not the desired name; the VPA with the desired
\* name is not deleted and is there after the reconcile.
C21_ObsoletePruned ==
    [][
      \* The managed VPAs controlled by the workload under another name than the
      \* desired one.
      LET ObsoleteFor(w) == ManagedVPAsControlledBy(w) \ {DesiredOf(w).Name}
      IN
      \A key \in DOMAIN workloads :
          ( /\ last'.actor = "workload"
            /\ last'.wkey = key
            /\ WantsVPA(workloads[key])
            /\ last'.result = "ok" ) =>
              /\ \A n \in ObsoleteFor(workloads[key]) :
                    /\ n \notin DOMAIN vpas'
                    /\ \E w \in last'.writes : w.op = "delete" /\ w.name = n
              /\ \A w \in last'.writes :
                    w.op = "delete" => w.name /= DesiredOf(workloads[key]).Name
              /\ DesiredOf(workloads[key]).Name \in DOMAIN vpas']_vars

\* A reconcile has just deleted a managed VPA of the workload that carried
\* another name than the desired one, with the desired VPA in place.
C21_Witness ==
    /\ last.actor = "workload"
    /\ last.wkey \in DOMAIN workloads
    /\ WantsVPA(workloads[last.wkey])
    /\ last.result = "ok"
    /\ \E w \in last.writes :
          /\ w.op = "delete"
          /\ w.pre = "managed"
          /\ w.name /= DesiredOf(workloads[last.wkey]).Name
    /\ DesiredOf(workloads[last.wkey]).Name \in DOMAIN vpas

\* C22: the safety net deletes the managed VPA it reconciles when the VPA
\* has no owner reference with controller=true (also when it has other owner
\* references) or when the kind of its controller owner reference is not
\* Deployment, StatefulSet or DaemonSet.
C22_OrphanDeleted ==
    [][
      \* The managed VPA has no owner reference with controller=true, or its
      \* controller owner reference is of a kind that is not supported.
      LET Orphan(vpa) ==
              /\ hasTrueLabel(vpa, ManagedLabel)
              /\ \/ \A r \in vpa.owners : ~r.controller
                 \/ \E r \in vpa.owners : r.controller /\ r.kind \notin SupportedKinds
      IN
      \A n \in DOMAIN vpas :
          (last'.actor = "safetynet" /\ last'.vname = n /\ Orphan(vpas[n])) =>
              /\ n \notin DOMAIN vpas'
              /\ last'.result = "ok"
              /\ last'.writes = {Write("delete", vpas, n)}]_vars

\* The safety net has just deleted a managed VPA whose controller owner
\* reference was of an unsupported kind.
C22_Witness ==
    /\ last.actor = "safetynet"
    /\ last.result = "ok"
    /\ \E w \in last.writes :
          /\ w.op = "delete"
          /\ w.pre = "managed"
          /\ w.owners = {"ReplicaSet"}
          /\ w.name \notin DOMAIN vpas

\* C23: the safety net deletes a managed VPA whose controller owner reference
\* names a workload of a supported kind exactly when no workload of that kind
\* and name exists; when one exists the VPA stays as it is.
C23_OwnerGoneDeleted ==
    [][
      \* The managed VPA has a controller owner reference of a supported kind.
      LET HasSupportedController(vpa) ==
              /\ hasTrueLabel(vpa, ManagedLabel)
              /\ \E r \in vpa.owners : r.controller /\ r.kind \in SupportedKinds
      IN
      \A n \in DOMAIN vpas :
          ( /\ last'.actor = "safetynet"
            /\ last'.vname = n
            /\ HasSupportedController(vpas[n]) ) =>
              LET present == \E r \in controllerOwnerRef(vpas[n]) :
                                 <<r.kind, r.name>> \in DOMAIN workloads
              IN /\ (n \notin DOMAIN vpas') <=> ~present
                 /\ present => (vpas' = vpas /\ last'.writes = {})
                 /\ ~present => \E w \in last'.writes : w.op = "delete" /\ w.name = n]_vars

\* The safety net has just deleted a managed VPA whose controller owner
\* reference named a Deployment that does not exist.
C23_Witness ==
    /\ last.actor = "safetynet"
    /\ \E w \in last.writes :
          /\ w.op = "delete"
          /\ w.pre = "managed"
          /\ w.owners = {DeploymentKind}
          /\ w.name \notin DOMAIN vpas

C28_MergedLabels ==
    [][\A key \in DOMAIN workloads :
          (last'.actor = "workload" /\ last'.wkey = key) =>
              \A w \in last'.writes :
                  (w.op = "apply" /\ w.pre /= "absent") =>
                      LET old == vpas[w.name].labels
                          new == vpas'[w.name].labels
                          desired == DesiredOf(workloads[key]).Labels
                      IN /\ DOMAIN new = DOMAIN old \cup DOMAIN desired
                         /\ \A k \in DOMAIN desired : new[k] = desired[k]
                         /\ \A k \in DOMAIN old \ DOMAIN desired : new[k] = old[k]]_vars

\* A workload reconcile has just applied new labels to an existing VPA that
\* carries the label of another writer, which is still there.
C28_Witness ==
    /\ last.actor = "workload"
    /\ \E w \in last.writes :
          /\ w.op = "apply"
          /\ w.pre /= "absent"
          /\ "labels" \in w.diff
          /\ Get(vpas[w.name].labels, UserLabel) /= ""
          /\ hasTrueLabel(vpas[w.name], ManagedLabel)

\* The update of the workload from old to new flipped the opt-in.
OptInFlipped(old, new) == OptedOut(old) /= OptedOut(new)

\* The update changed the value of the annotation of an opted-in workload.
ValueChangedWhileOptedIn(old, new) ==
    /\ ~OptedOut(old)
    /\ ~OptedOut(new)
    /\ old.annotations[ProfileKey] /= new.annotations[ProfileKey]

\* C29 (as claimed): an update of a workload queues its key if and only if
\* the opt-in flipped, or the value of the annotation changed while opted in,
\* or the deletion of the workload has just started.
C29_WorkloadUpdateTrigger ==
    [][\A k \in DOMAIN workloads \cap DOMAIN workloads' :
          (workloads[k] /= workloads'[k] /\ k \notin wq) =>
              (k \in wq' <=>
                  \/ OptInFlipped(workloads[k], workloads'[k])
                  \/ ValueChangedWhileOptedIn(workloads[k], workloads'[k])
                  \/ deletionJustStarted(workloads[k], workloads'[k]))]_vars

\* C29 (amended): an update of a workload queues its key if and only if the
\* opt-in flipped, or the workload is opted in and either the value of its
\* annotation changed or its deletion has just started.  The start of the
\* deletion of a workload that is not opted in queues nothing.
C29_WorkloadUpdateTriggerOptedIn ==
    [][\A k \in DOMAIN workloads \cap DOMAIN workloads' :
          (workloads[k] /= workloads'[k] /\ k \notin wq) =>
              (k \in wq' <=>
                  \/ OptInFlipped(workloads[k], workloads'[k])
                  \/ ValueChangedWhileOptedIn(workloads[k], workloads'[k])
                  \/ /\ ~OptedOut(workloads'[k])
                     /\ deletionJustStarted(workloads[k], workloads'[k]))]_vars

\* The deletion of a workload that is not opted in has started and its key
\* is not queued.
C29_Witness ==
    /\ last.actor = "user"
    /\ \E k \in DOMAIN workloads :
          /\ workloads[k].deleting
          /\ OptedOut(workloads[k])
          /\ k \notin wq

\* The update of the VPA from old to new toggled the managed label.
ManagedToggled(old, new) ==
    hasTrueLabel(old, ManagedLabel) /= hasTrueLabel(new, ManagedLabel)

\* C30 (as claimed): an update of a VPA queues it for the safety net if and
\* only if the managed label toggled, or the deletion started, or the
\* controller owner reference changed.
C30_VPAUpdateTrigger ==
    [][\A n \in DOMAIN vpas \cap DOMAIN vpas' :
          (vpas[n] /= vpas'[n] /\ n \notin vq) =>
              (n \in vq' <=>
                  \/ ManagedToggled(vpas[n], vpas'[n])
                  \/ deletionJustStarted(vpas[n], vpas'[n])
                  \/ controllerOwnerRefChanged(vpas[n], vpas'[n]))]_vars

\* C30 (amended): an update of a VPA queues it for the safety net if and
\* only if the managed label toggled, or the VPA is managed and either its
\* deletion started or its controller owner reference changed.  A change of
\* the spec, of a non-controller owner reference or of other labels alone
\* queues nothing, and so does every update of a VPA that is and stays
\* unmanaged.
C30_VPAUpdateTriggerManaged ==
    [][\A n \in DOMAIN vpas \cap DOMAIN vpas' :
          (vpas[n] /= vpas'[n] /\ n \notin vq) =>
              (n \in vq' <=>
                  \/ ManagedToggled(vpas[n], vpas'[n])
                  \/ /\ hasTrueLabel(vpas'[n], ManagedLabel)
                     /\ \/ deletionJustStarted(vpas[n], vpas'[n])
                        \/ controllerOwnerRefChanged(vpas[n], vpas'[n]))]_vars

\* A user has started the deletion of a VPA without the managed label and
\* the VPA is not queued.
C30_Witness ==
    /\ last.actor = "user"
    /\ \E n \in DOMAIN vpas :
          /\ ~hasTrueLabel(vpas[n], ManagedLabel)
          /\ vpas[n].deleting
          /\ n \notin vq

\* C24: a reconcile whose fetch of the workload (workload reconciler) or of
\* the owner (safety net) fails with another error than NotFound returns an
\* error, is queued again, and deletes and writes no VPA.
C24_FetchFailureRetriedNoWrites ==
    [][( \/ last'.actor = "workload" /\ last'.fault = "get"
         \/ last'.actor = "safetynet" /\ last'.fault = "owner" ) =>
          /\ last'.result = "err"
          /\ last'.writes = {}
          /\ vpas' = vpas
          /\ last'.actor = "workload" => last'.wkey \in wq'
          /\ last'.actor = "safetynet" => last'.vname \in vq']_vars

\* The fetch of a workload that is gone has just failed with another error
\* than NotFound while a managed VPA of that workload exists; it still does.
C24_Witness ==
    /\ last.actor = "workload"
    /\ last.fault = "get"
    /\ last.result = "err"
    /\ last.wkey \notin DOMAIN workloads
    /\ ManagedVPAsOfKey(last.wkey) /= {}

\* C25: a reconcile of an opted-in workload whose listing of the managed VPAs
\* fails during pruning returns an error and neither creates nor updates the
\* desired VPA.
C25_ListFailureStopsReconcile ==
    [][\A key \in DOMAIN workloads :
          ( /\ last'.actor = "workload"
            /\ last'.wkey = key
            /\ last'.fault = "list"
            /\ WantsVPA(workloads[key]) ) =>
              /\ last'.result = "err"
              /\ key \in wq'
              /\ \A w \in last'.writes : w.op /= "apply"
              /\ vpas' = vpas]_vars

\* The listing has just failed in the reconcile of an opted-in workload whose
\* desired VPA does not exist; it still does not.
C25_Witness ==
    /\ last.actor = "workload"
    /\ last.fault = "list"
    /\ last.wkey \in DOMAIN workloads
    /\ WantsVPA(workloads[last.wkey])
    /\ DesiredOf(workloads[last.wkey]).Name \notin DOMAIN vpas

\* C26: a delete that meets a VPA already gone counts as success: a reconcile
\* of a workload reconciler or of the safety net that deletes VPAs, with no
\* failing read, returns no error, also when another reconcile or a user has
\* deleted the same VPA in the meantime.
C26_DeleteOfGoneVPAIsSuccess ==
    [][(Operator(last') /\ last'.fault = "none") =>
          \A w \in last'.writes :
              w.op = "delete" =>
                  /\ last'.result = "ok"
                  /\ w.name \notin DOMAIN vpas']_vars

\* The safety net has just issued a delete for a VPA that was deleted after
\* its work item was queued, and has returned success.
C26_Witness ==
    /\ last.actor = "safetynet"
    /\ last.result = "ok"
    /\ \E w \in last.writes :
          /\ w.op = "delete"
          /\ w.pre = "absent"
          /\ w.name \notin DOMAIN vpas

\* C31: an update of a managed VPA queues the owning workload for its
\* reconciler whenever the structural filter passes the update (managed label
\* toggled, deletion started, controller owner reference changed), and also
\* whenever the value of the managed label or of the profile label changed or
\* the spec differs.
C31_ContentUpdateTrigger ==
    [][
      \* The value of the managed label or of the profile label changed.
      LET OperatorLabelDrift(old, new) ==
              \/ Get(old.labels, ManagedLabel) /= Get(new.labels, ManagedLabel)
              \/ Get(old.labels, ProfileKey) /= Get(new.labels, ProfileKey)
      IN
      \* The VPA carries managedLabel="true" before or after the update.
      LET ManagedInUpdate(old, new) ==
              hasTrueLabel(old, ManagedLabel) \/ hasTrueLabel(new, ManagedLabel)
      IN
      \A n \in DOMAIN vpas \cap DOMAIN vpas' :
          ( /\ vpas[n] /= vpas'[n]
            /\ ManagedInUpdate(vpas[n], vpas'[n])
            /\ \/ ManagedToggled(vpas[n], vpas'[n])
               \/ deletionJustStarted(vpas[n], vpas'[n])
               \/ controllerOwnerRefChanged(vpas[n], vpas'[n])
               \/ OperatorLabelDrift(vpas[n], vpas'[n])
               \/ vpas[n].spec /= vpas'[n].spec ) =>
              (OwnerRequests(vpas[n]) \cup OwnerRequests(vpas'[n])) \subseteq wq']_vars

\* A user has edited the spec of a managed VPA that carries the label of a
\* configured profile: its owner is queued, the VPA itself is not.
C31_Witness ==
    /\ last.actor = "user"
    /\ \E n \in DOMAIN vpas :
          /\ hasTrueLabel(vpas[n], ManagedLabel)
          /\ Get(vpas[n].labels, ProfileKey) \in DOMAIN ProfileEntries
          /\ vpas[n].spec.updatePolicy.updateMode = "Initial"
          /\ OwnerRequests(vpas[n]) /= {}
          /\ OwnerRequests(vpas[n]) \subseteq wq
          /\ n \notin vq

\* C32: the creation, an update or the deletion of an unmanaged VPA (without
\* managedLabel="true", before and after an update) queues nothing, neither
\* the VPA for the safety net nor its owner for a workload reconciler,
\* whatever else changed on it.
C32_UnmanagedNoTrigger ==
    [][
      \* The VPA n does not carry managedLabel="true", neither before nor after the
      \* step, as far as it exists.
      LET StaysUnmanaged(n) ==
              /\ n \in DOMAIN vpas => ~hasTrueLabel(vpas[n], ManagedLabel)
              /\ n \in DOMAIN vpas' => ~hasTrueLabel(vpas'[n], ManagedLabel)
      IN
      \* The VPAs that the step creates, changes or deletes.
      LET ChangedVPAs ==
              {n \in DOMAIN vpas \cup DOMAIN vpas' :
                  n \notin DOMAIN vpas \/ n \notin DOMAIN vpas' \/ vpas[n] /= vpas'[n]}
      IN
      \A n \in VPANames :
          (ChangedVPAs = {n} /\ StaysUnmanaged(n)) =>
              (wq' \subseteq wq /\ vq' \subseteq vq)]_vars

\* A user has set the profile label of an unmanaged VPA that has a controller
\* reference to a supported workload: neither the VPA nor the owner is queued.
C32_Witness ==
    /\ last.actor = "user"
    /\ wq = {}
    /\ vq = {}
    /\ \E n \in DOMAIN vpas :
          /\ ~hasTrueLabel(vpas[n], ManagedLabel)
          /\ Get(vpas[n].labels, ProfileKey) = "bogus"
          /\ OwnerRequests(vpas[n]) \cap DOMAIN workloads /= {}

\* C34: the reconcile of an opted-in workload whose deletion has started
\* cleans up: it neither creates nor updates a VPA, and afterwards no managed
\* VPA has a controller owner reference to the workload.
C34_DeletionStartCleansUp ==
    [][
      \* The deletion of the workload has started and the object still exists.
      LET Terminating(key) == key \in DOMAIN workloads /\ workloads[key].deleting
      IN
      \A key \in DOMAIN workloads :
          ( /\ last'.actor = "workload"
            /\ last'.wkey = key
            /\ Terminating(key)
            /\ WantsVPA(workloads[key]) ) =>
              /\ \A w \in last'.writes : w.op /= "apply"
              /\ \A n \in listManagedVPAs(vpas') :
                    ~ControllerMatches(vpas'[n], workloads[key])]_vars

MaxSettleSteps == 12

\* The VPAs and the queues after a workload reconciler has taken the item key.
AfterWorkloadReconcile(wl, st, key) ==
    LET r == WorkloadReconcilerReconcile(st.vpas, wl, key)
    IN [vpas |-> r.vpas,
        wq |-> ((st.wq \ {key}) \cup VPAOwnerTriggers(st.vpas, r.vpas))
                   \cup (IF r.result = "err" THEN {key} ELSE {}),
        vq |-> st.vq \cup VPATriggers(st.vpas, r.vpas)]

\* The VPAs and the queues after the safety net has taken the item name.
AfterVPAReconcile(wl, st, name) ==
    LET r == VPAReconcilerReconcile(st.vpas, wl, name)
    IN [vpas |-> r.vpas,
        wq |-> st.wq \cup VPAOwnerTriggers(st.vpas, r.vpas),
        vq |-> ((st.vq \ {name}) \cup VPATriggers(st.vpas, r.vpas))
                   \cup (IF r.result = "err" THEN {name} ELSE {})]

\* The pending items processed in one fixed order: the workload reconcilers
\* first, then the safety net, for at most fuel reconciles.
RECURSIVE Settle(_, _, _)
Settle(wl, st, fuel) ==
    CHOOSE e \in
        {IF x.wq = {} /\ x.vq = {} THEN [settled |-> TRUE, vpas |-> x.vpas]
         ELSE IF fuel = 0 THEN [settled |-> FALSE, vpas |-> [n \in {} |-> 0]]
         ELSE IF x.wq /= {}
         THEN Settle(wl, AfterWorkloadReconcile(wl, x, CHOOSE k \in x.wq : TRUE), fuel - 1)
         ELSE Settle(wl, AfterVPAReconcile(wl, x, CHOOSE n \in x.vq : TRUE), fuel - 1)
         : x \in {st}} : TRUE

\* The managed VPAs the operator converges to from the VPAs and queues st
\* when the pending items are processed in the fixed order.
Outcome(wl, st) ==
    \* The managed VPAs of vp: names, labels, specs and controller owners.
    LET ManagedSet(vp) ==
            [n \in listManagedVPAs(vp) |->
                [labels |-> vp[n].labels, spec |-> vp[n].spec,
                 controller |-> controllerOwnerRef(vp[n])]]
    IN
    LET e == Settle(wl, st, MaxSettleSteps)
    IN [settled |-> e.settled, managed |-> ManagedSet(e.vpas)]

Pending == [vpas |-> vpas, wq |-> wq, vq |-> vq]

\* C33: whichever pending item a reconciler takes next, the managed VPAs the
\* operator converges to (names, labels, specs, controller owners) are the
\* same; so every order of processing the pending items of different keys and
\* reconcilers ends in the same converged set of managed VPAs.
C33_OrderInsensitive ==
    /\ \A key \in wq :
          Outcome(workloads, AfterWorkloadReconcile(workloads, Pending, key))
              = Outcome(workloads, Pending)
    /\ \A name \in vq :
          Outcome(workloads, AfterVPAReconcile(workloads, Pending, name))
              = Outcome(workloads, Pending)

\* C35: with workloads and VPAs that no longer change, the operator comes to
\* rest: from some time on no reconciler issues an apply or a delete, also
\* when two workloads render the same desired VPA name.
C35_Quiescence ==
    <>[][
      \* A reconciler issues an apply or a delete.
      LET OperatorWrites == Operator(last') /\ last'.writes /= {}
      IN
      ~OperatorWrites]_vars

\* C36: the cleanup for a workload that opted out or is gone deletes no
\* managed VPA whose controller owner reference points at another workload,
\* also when the VPA carries a non-controller owner reference with the kind
\* and name of the workload, with its UID or with another.
C36_CleanupSparesOthers ==
    [][
      \* The reconcile of key runs the cleanup for opt-out or for a gone workload.
      LET CleansUp(key) ==
              \/ key \notin DOMAIN workloads
              \/ key \in DOMAIN workloads /\ OptedOut(workloads[key])
      IN
      \* The controller owner reference of the VPA points at another workload than
      \* the one of key.
      LET ControlledByOther(vpa, key) ==
              \E r \in controllerOwnerRef(vpa) : <<r.kind, r.name>> /= key
      IN
      (last'.actor = "workload" /\ CleansUp(last'.wkey)) =>
          \A w \in last'.writes :
              w.op = "delete" => ~ControlledByOther(vpas[w.name], last'.wkey)]_vars

\* The managed VPA n has a controller owner reference with the kind and name
\* of an existing workload and with another UID than that workload has.
StaleUID(n) ==
    /\ n \in DOMAIN vpas
    /\ hasTrueLabel(vpas[n], ManagedLabel)
    /\ \E r \in controllerOwnerRef(vpas[n]) :
          /\ <<r.kind, r.name>> \in DOMAIN workloads
          /\ workloads[<<r.kind, r.name>>].uid /= r.uid

\* C37: a managed VPA whose controller owner reference carries the UID of a
\* deleted workload, while a new workload of the same kind and name exists,
\* is eventually deleted or re-owned by the new workload.
C37_StaleUIDResolved ==
    \A n \in VPANames : StaleUID(n) ~> ~StaleUID(n)

\* In every order in which the workload reconciler takes key and the safety
\* net takes name, as long as they are queued, both come to rest within fuel
\* reconciles, and then the workload has its one managed VPA.
RECURSIVE Readopted(_, _, _, _, _)
Readopted(wl, st, key, name, fuel) ==
    \* The workload of key has exactly one managed VPA with a controller owner
    \* reference to it, and that VPA has the desired name.
    LET OneManagedVPA(w, vp, k) ==
            {n \in listManagedVPAs(vp) : ControllerMatches(vp[n], w[k])}
                = {DesiredOf(w[k]).Name}
    IN
    \A x \in {st} :
        IF key \notin x.wq /\ name \notin x.vq THEN OneManagedVPA(wl, x.vpas, key)
        ELSE IF fuel = 0 THEN FALSE
        ELSE /\ key \in x.wq =>
                  Readopted(wl, AfterWorkloadReconcile(wl, x, key), key, name, fuel - 1)
             /\ name \in x.vq =>
                  Readopted(wl, AfterVPAReconcile(wl, x, name), key, name, fuel - 1)

\* C38: when the managed VPA of an opted-in workload is left without a
\* controller owner reference by an external writer, every interleaving of
\* the reconciles of the workload (which adopts the VPA) and of the safety net
\* (which deletes it) ends with the workload having exactly one managed VPA,
\* with the desired name and a controller owner reference to the workload.
C38_ReadoptedInEveryOrder ==
    \A key \in DOMAIN workloads :
        (last.actor = "user" /\ Adoptable(key)) =>
            Readopted(workloads, Pending, key, DesiredOf(workloads[key]).Name,
                      MaxSettleSteps)

\* A user has removed the controller owner reference from the VPA the
\* operator made for a workload; the workload and the VPA are queued.
C38_Witness ==
    /\ last.actor = "user"
    /\ \E key \in DOMAIN workloads :
          /\ Adoptable(key)
          /\ key \in wq
          /\ DesiredOf(workloads[key]).Name \in vq
          /\ vpas[DesiredOf(workloads[key]).Name].spec = DesiredOf(workloads[key]).Spec
          /\ Get(vpas[DesiredOf(workloads[key]).Name].labels, ProfileKey)
                = workloads[key].annotations[ProfileKey]

\* C39: the gauge autovpa_managed_vpa of a profile equals the number of
\* managed VPAs with that profile label, also when a workload reconciler and
\* the safety net both try to delete the same VPA.
C39_GaugeIsCount ==
    \* The number of managed VPAs with the profile label p ("unknown" without).
    LET ManagedCount(p) ==
            Cardinality({n \in listManagedVPAs(vpas) :
                            profileFromLabels(vpas[n].labels, ProfileKey) = p})
    IN
    \A p \in GaugeProfiles : gauge[p] = ManagedCount(p)

====
